---- MODULE Spec2Model ----
(***************************************************************************)
(* Model of contrib/plugins/splittag.c: the split-tag cache engine, the    *)
(* per-core access path and the magic-opcode instrumentation window.       *)
(*                                                                         *)
(* Addresses are AddrBits wide instead of 64 bits wide; every mask is      *)
(* computed by cache_init exactly as the source computes it, on that       *)
(* narrower word.  Memory that the source allocates with g_new (not        *)
(* g_new0) and reads before writing it starts at any value of              *)
(* UninitVals.                                                             *)
(***************************************************************************)
EXTENDS Integers, Sequences, FiniteSets, TLC

(***************************************************************************)
(* Bounds of the model.                                                    *)
(***************************************************************************)
\* width of an address word (uint64_t in the source)
AddrBits == 5
\* number of instructions (one data access each) a behaviour of Spec runs
MaxAccesses == 4
\* number of instructions a scan workload runs
MaxScan == 7
\* number of instructions a behaviour with magic opcodes runs
MaxExec == 4
\* number of instructions the vCPU threads of SpecLocks run in all
MaxLocked == 3
\* number of instructions a behaviour of SpecStats runs
MaxStats == 4

(***************************************************************************)
(* Word arithmetic on AddrBits-wide unsigned integers.                     *)
(***************************************************************************)
RECURSIVE Pow2(_)
Pow2(n) == IF n = 0 THEN 1 ELSE 2 * Pow2(n - 1)

WordMod == Pow2(AddrBits)

RECURSIVE BitAnd(_, _)
BitAnd(a, b) ==
    IF a = 0 \/ b = 0 THEN 0
    ELSE (a % 2) * (b % 2) + 2 * BitAnd(a \div 2, b \div 2)

BitOr(a, b) == a + b - BitAnd(a, b)

BitNot(a) == WordMod - 1 - a

Shl(a, n) == (a * Pow2(n)) % WordMod

Shr(a, n) == a \div Pow2(n)

(***************************************************************************)
(* enum EvictionPolicy                                                     *)
(***************************************************************************)
EvictionPolicy == {"LRU", "FIFO", "RAND"}

(***************************************************************************)
(* pow_of_two: log2 of a power of two (the g_assert is the caller's duty). *)
(***************************************************************************)
RECURSIVE pow_of_two(_)
pow_of_two(num) == IF num \div 2 = 0 THEN 0 ELSE 1 + pow_of_two(num \div 2)

(***************************************************************************)
(* CacheSet.tagh is never initialised: g_new does not clear the sets array *)
(* and cache_init never writes tagh.  Until its first write the field      *)
(* holds Uninit, and the first read of it yields any value of UninitVals:  *)
(* 0 and the top address bit are high tags of real addresses; 1 has a      *)
(* block-offset bit set and is the high tag of no address.                 *)
(***************************************************************************)
Uninit == -1

UninitVals == {0, 1, Pow2(AddrBits - 1)}

bad_cache_params(blksize, assoc, cachesize) ==
    (cachesize % blksize) # 0 \/ (cachesize % (blksize * assoc)) # 0

(***************************************************************************)
(* metadata_init as installed by policy_init: lru_priorities_init under    *)
(* LRU, fifo_init under FIFO, nothing under RAND.  The metadata of the     *)
(* other policies is never read, so it is given a fixed value.             *)
(***************************************************************************)
metadata_init(pol, assoc) ==
    [lru_priorities  |-> [i \in 0..(assoc - 1) |-> 0],
     lru_gen_counter |-> 0,
     fifo_queue      |-> <<>>]

\* the quotient of an int division on a build where a division by zero
\* does not trap
c_div(a, b) == IF b = 0 THEN 0 ELSE a \div b

(***************************************************************************)
(* cache_init                                                              *)
(***************************************************************************)
cache_init_shl(pol, blksize, assoc, cachesize, taglsize, one_shl) ==
    LET num_sets      == c_div(cachesize, blksize * assoc)
        set_shift     == pow_of_two(num_sets)
        blksize_shift == pow_of_two(blksize)
        set_mask      == Shl(num_sets - 1, blksize_shift)
        blk_mask      == (blksize - 1) % WordMod
        tag_mask      == BitNot(BitOr(set_mask, blk_mask))
        low           == (one_shl - 1) % WordMod
        md            == metadata_init(pol, assoc)
    IN  [assoc         |-> assoc,
         cachesize     |-> cachesize,
         num_sets      |-> num_sets,
         blksize_shift |-> blksize_shift,
         accesses      |-> 0,
         misses        |-> 0,
         invals        |-> 0,
         set_mask      |-> set_mask,
         tagh_mask     |-> BitAnd(tag_mask,
                                  Shl(BitNot(low), set_shift + blksize_shift)),
         tagl_mask     |-> BitAnd(tag_mask,
                                  Shl(low, set_shift + blksize_shift)),
         sets          |-> [s \in 0..(num_sets - 1) |->
                              [tagh   |-> Uninit,
                               blocks |-> [i \in 0..(assoc - 1) |->
                                             [tagl |-> 0, valid |-> FALSE]],
                               lru_priorities  |-> md.lru_priorities,
                               lru_gen_counter |-> md.lru_gen_counter,
                               fifo_queue      |-> md.fifo_queue]]]

\* the values 1L << taglsize may take: shifting by the width of the word or
\* more is undefined; the bit is shifted out, or the count is taken modulo
\* the width
shl_long(taglsize) ==
    IF taglsize < AddrBits THEN {Pow2(taglsize)}
    ELSE {0, Pow2(taglsize % AddrBits)}

cache_init(pol, blksize, assoc, cachesize, taglsize) ==
    cache_init_shl(pol, blksize, assoc, cachesize, taglsize, Shl(1, taglsize))

extract_tagh(cache, addr) == BitAnd(addr, cache.tagh_mask)

extract_tagl(cache, addr) == BitAnd(addr, cache.tagl_mask)

extract_set(cache, addr) == Shr(BitAnd(addr, cache.set_mask), cache.blksize_shift)

(***************************************************************************)
(* LRU: lru_update_blk is both update_hit and update_miss.                 *)
(***************************************************************************)
lru_update_blk(set, blk_idx) ==
    [set EXCEPT !.lru_priorities[blk_idx] = set.lru_gen_counter,
                !.lru_gen_counter = set.lru_gen_counter + 1]

\* width of int and of uint64_t (32 and 64 in the source), scaled down
IntBits == 4

LongBits == 2 * IntBits

\* the value an int takes when a uint64_t is assigned to it
to_int(x) == ((x + Pow2(IntBits - 1)) % Pow2(IntBits)) - Pow2(IntBits - 1)

\* the value an int takes when it is converted to uint64_t for a comparison
to_u64(x) == x % Pow2(LongBits)

\* the loop of lru_get_lru_block: strict < keeps the lowest index on a tie;
\* min_priority is an int, the priorities are uint64_t
RECURSIVE lru_scan(_, _, _, _, _)
lru_scan(prio, i, min_idx, min_priority, n) ==
    IF i >= n THEN min_idx
    ELSE IF prio[i] < to_u64(min_priority)
    THEN lru_scan(prio, i + 1, i, to_int(prio[i]), n)
    ELSE lru_scan(prio, i + 1, min_idx, min_priority, n)

RECURSIVE lru_scan_max(_, _, _, _)
lru_scan_max(prio, i, min_idx, n) ==
    IF i >= n THEN min_idx
    ELSE IF prio[i] > prio[min_idx] THEN lru_scan_max(prio, i + 1, i, n)
    ELSE lru_scan_max(prio, i + 1, min_idx, n)

\* faulty variant: the comparison of the scan reversed (most recently used block)
lru_get_mru_block(set, assoc) == lru_scan_max(set.lru_priorities, 1, 0, assoc)

lru_get_lru_block(set, assoc) ==
    lru_scan(set.lru_priorities, 1, 0, to_int(set.lru_priorities[0]), assoc)

(***************************************************************************)
(* FIFO: the queue's head is element 1.  g_queue_pop_tail of an empty      *)
(* queue returns NULL, which GPOINTER_TO_INT turns into 0.                 *)
(***************************************************************************)
\* faulty variant: pops the head (the newest block) instead of the tail
fifo_get_last_block(set) ==
    IF set.fifo_queue = <<>> THEN [blk |-> 0, set |-> set]
    ELSE [blk |-> Head(set.fifo_queue),
          set |-> [set EXCEPT !.fifo_queue = Tail(set.fifo_queue)]]

fifo_get_first_block(set) ==
    IF set.fifo_queue = <<>> THEN [blk |-> 0, set |-> set]
    ELSE [blk |-> set.fifo_queue[Len(set.fifo_queue)],
          set |-> [set EXCEPT !.fifo_queue =
                       SubSeq(set.fifo_queue, 1, Len(set.fifo_queue) - 1)]]

fifo_update_on_miss(set, blk_idx) ==
    [set EXCEPT !.fifo_queue = <<blk_idx>> \o set.fifo_queue]

\* update_hit / update_miss as installed by policy_init (NULL = no-op)
update_hit(pol, set, blk) ==
    IF pol = "LRU" THEN lru_update_blk(set, blk) ELSE set

update_miss(pol, set, blk) ==
    CASE pol = "LRU"  -> lru_update_blk(set, blk)
      [] pol = "FIFO" -> fifo_update_on_miss(set, blk)
      [] OTHER        -> set

\* get_invalid_block: lowest invalid index, or -1
RECURSIVE invalid_scan(_, _, _)
invalid_scan(blocks, i, n) ==
    IF i >= n THEN -1
    ELSE IF ~blocks[i].valid THEN i
    ELSE invalid_scan(blocks, i + 1, n)

\* faulty variant: the scan for an invalid block starts at block 1
get_invalid_block_from_one(set, assoc) == invalid_scan(set.blocks, 1, assoc)

get_invalid_block(set, assoc) == invalid_scan(set.blocks, 0, assoc)

(***************************************************************************)
(* get_replaced_block.  rnd is the value g_rand_int_range(rng, 0, assoc)   *)
(* returns; rng is seeded by g_rand_new() from the system, so the caller   *)
(* draws rnd from 0..assoc-1.                                              *)
(***************************************************************************)
get_replaced_block(pol, set, assoc, rnd) ==
    CASE pol = "RAND" -> [blk |-> rnd, set |-> set]
      [] pol = "LRU"  -> [blk |-> lru_get_lru_block(set, assoc), set |-> set]
      [] pol = "FIFO" -> fifo_get_first_block(set)

\* the scan of in_cache from block `from`: first valid block holding tagl
RECURSIVE tagl_scan(_, _, _, _)
tagl_scan(blocks, tagl, i, n) ==
    IF i >= n THEN -1
    ELSE IF blocks[i].tagl = tagl /\ blocks[i].valid THEN i
    ELSE tagl_scan(blocks, tagl, i + 1, n)

\* faulty variant: the scan starts at block 1
in_cache_from_one(cache, addr) ==
    LET set == cache.sets[extract_set(cache, addr)]
    IN  IF set.tagh # extract_tagh(cache, addr) THEN -1
        ELSE tagl_scan(set.blocks, extract_tagl(cache, addr), 1, cache.assoc)

\* faulty variant: the set's high tag is not compared (a conventional tag match)
in_cache_no_tagh(cache, addr) ==
    LET set == cache.sets[extract_set(cache, addr)]
    IN  tagl_scan(set.blocks, extract_tagl(cache, addr), 0, cache.assoc)

in_cache(cache, addr) ==
    LET set == cache.sets[extract_set(cache, addr)]
    IN  IF set.tagh # extract_tagh(cache, addr) THEN -1
        ELSE tagl_scan(set.blocks, extract_tagl(cache, addr), 0, cache.assoc)

(***************************************************************************)
(* The invalidation branch of access_cache (tagh mismatch): every way of   *)
(* the set is marked invalid and the set takes the new high tag.           *)
(***************************************************************************)
\* faulty variant: the ways are left valid
keep_ways(set, tagh, assoc) == [set EXCEPT !.tagh = tagh]

\* faulty variant: the set's high tag is not updated
keep_tagh(set, tagh, assoc) ==
    [set EXCEPT !.blocks = [i \in 0..(assoc - 1) |->
                               [set.blocks[i] EXCEPT !.valid = FALSE]]]

invalidate_ways(set, tagh, assoc) ==
    [set EXCEPT !.blocks = [i \in 0..(assoc - 1) |->
                               [set.blocks[i] EXCEPT !.valid = FALSE]],
                !.tagh = tagh]

(***************************************************************************)
(* access_cache.  Returns the new cache, the status (0 hit, 1 miss,        *)
(* 3 miss with invalidation) and the block that was hit or filled.         *)
(***************************************************************************)
\* Only(S): the element of a singleton set (binds a value computed once)
Only(S) == CHOOSE x \in S : TRUE

\* the miss path of access_cache, from line "replaced_blk = get_invalid_block"
install_block(pol, cache, set, s1, tagl, inval, rnd) ==
    Only({ [cache |-> [cache EXCEPT !.sets[set] =
                          [update_miss(pol, victim.set, victim.blk)
                             EXCEPT !.blocks[victim.blk] =
                                        [tagl |-> tagl, valid |-> TRUE]]],
            ret   |-> BitOr(inval, 1),
            blk   |-> victim.blk] :
           victim \in { IF get_invalid_block(s1, cache.assoc) = -1
                        THEN get_replaced_block(pol, s1, cache.assoc, rnd)
                        ELSE [blk |-> get_invalid_block(s1, cache.assoc),
                              set |-> s1] } })

\* the cache as the access to addr reads it: a tagh still uninitialised
\* reads as the stale value
read_tagh(cache, addr, stale) ==
    IF cache.sets[extract_set(cache, addr)].tagh = Uninit
    THEN [cache EXCEPT !.sets[extract_set(cache, addr)].tagh = stale]
    ELSE cache

access_cache(pol, cache0, addr, rnd, stale) ==
    LET cache   == read_tagh(cache0, addr, stale)
        tagh    == extract_tagh(cache, addr)
        tagl    == extract_tagl(cache, addr)
        set     == extract_set(cache, addr)
        hit_blk == in_cache(cache, addr)
        old     == cache.sets[set]
    IN  IF hit_blk # -1
        THEN [cache |-> [cache EXCEPT !.sets[set] = update_hit(pol, old, hit_blk)],
              ret   |-> 0,
              blk   |-> hit_blk]
        ELSE IF old.tagh # tagh
        THEN install_block(pol, cache, set,
                           invalidate_ways(old, tagh, cache.assoc), tagl, 2, rnd)
        ELSE install_block(pol, cache, set, old, tagl, 0, rnd)

(***************************************************************************)
(* Configuration (qemu_plugin_install).  The geometry is a scaled-down     *)
(* key=value configuration: 2 sets of 2 ways of 2-byte blocks, a 2-bit     *)
(* low tag for the L1 caches and a 1-bit low tag for L2; what is left of   *)
(* the address word is the high tag.                                       *)
(***************************************************************************)
L1Geometry == [blksize |-> 2, assoc |-> 2, cachesize |-> 8, taglsize |-> 2]

L2Geometry == [blksize |-> 2, assoc |-> 2, cachesize |-> 16, taglsize |-> 1]

NumSetsOf(g) == g.cachesize \div (g.blksize * g.assoc)

\* MAGIC_OPCODE_START / MAGIC_OPCODE_STOP, as the opcode class of an insn
MAGIC_OPCODE_START == "start"
MAGIC_OPCODE_STOP == "stop"

NULL == [null |-> TRUE]

(***************************************************************************)
(* State.                                                                  *)
(***************************************************************************)
VARIABLES
    \* configuration, fixed by qemu_plugin_install
    policy, cores, use_l2, use_magic_op, sys,
    \* the guest code the host runs: TB id -> sequence of instructions
    code,
    \* plugin state
    magic_op_found, l1_dcaches, l1_icaches, l2_ucaches, miss_ht, sum, rep,
    \* host state: callbacks registered per translated TB, the position of
    \* each vCPU, the number of instructions executed so far
    tbs, cur, nexec,
    \* observation of the L1-D cache of core 0: the last two effective
    \* addresses, the last status, who installed each block, the last
    \* installation per set, a reference model of the resident lines
    lastAddr, prevAddr, lastRet, installer, lastInstall, resident,
    refAccesses, refMisses,
    \* the access stream of a scan workload and its position
    scan, scanPos,
    \* the instrumentation window as the guest sees it, what the last
    \* executed ordinary instruction did, the number of stop markers executed
    window, lastExec, nstops,
    \* the cache mutexes (the set of vCPU threads holding each: empty or one
    \* thread), the callback each vCPU thread is in, and the number of
    \* access_cache calls made on each cache
    l1_dcache_locks, l1_icache_locks, l2_ucache_locks, thr, made,
    \* the number of entries of a top-N list, whether plugin_exit has run,
    \* and what log_top_insns has passed to qemu_plugin_outs
    limit, exited, top,
    \* the arguments handed to qemu_plugin_install and how the call ended
    argv, install_ret,
    \* the geometry handed to cache_init on its own
    geometry,
    \* a conventional cache fed the accesses of core 0's L1-D (per set, the
    \* resident blocks, newest first) and whether its last access hit
    conv, convHit,
    \* two runs of one cache under RAND, each with its own generator
    runs,
    \* the registry mutex, the translation each vCPU thread is in, and the
    \* number of InsnData allocated per effective address
    hashtable_lock, trans, allocs,
    \* the address tracer: the record its classifier last produced, the
    \* records allocated by its translation callback, the record registered
    \* for each instruction, the execution history regl (newest first), the
    \* lines written to stderr, the frames of the dependency walk in
    \* progress, and the number of free() calls per record
    decoded, recs, udata, regl, err, walk, freed,
    \* an observer of core 0's L1-D: a clock of its accesses, per block the
    \* time it was installed and last accessed, and what the last miss found
    \* and chose
    clock, stamps, fill,
    \* the RSA key parser: the bytes (key, keylen) and the key type handed to
    \* qcrypto_akcipher_rsakey_parse, whether it has returned, the key it
    \* returned and the error it set (each empty, or one element)
    keybuf, type, parsed, rsa, errp

cfgVars == <<policy, cores, use_l2, use_magic_op, sys, code>>
plugVars == <<magic_op_found, l1_dcaches, l1_icaches, l2_ucaches, miss_ht, sum, rep>>
hostVars == <<tbs, cur, nexec>>
obsVars == <<lastAddr, prevAddr, lastRet, installer, lastInstall, resident,
             refAccesses, refMisses>>
scanVars == <<scan, scanPos>>
winVars == <<window, lastExec, nstops>>
lockVars == <<l1_dcache_locks, l1_icache_locks, l2_ucache_locks, thr, made>>
exitVars == <<limit, exited, top>>
instVars == <<argv, install_ret, geometry>>
convVars == <<conv, convHit>>
regVars == <<hashtable_lock, trans, allocs>>
trackVars == <<decoded, recs, udata, regl, err, walk, freed>>
evictVars == <<clock, stamps, fill>>
keyVars == <<keybuf, type, parsed, rsa, errp>>
laterVars == <<trackVars, evictVars, keyVars>>
moreVars == <<convVars, runs, regVars, laterVars>>
extVars == <<lockVars, exitVars, instVars, moreVars>>
vars == <<cfgVars, plugVars, hostVars, obsVars, scanVars, winVars, extVars>>

(***************************************************************************)
(* Counters of a cache after an access of status ret: the locked section   *)
(* of vcpu_mem_access / vcpu_insn_exec.                                    *)
(***************************************************************************)
count_access(cache, ret) ==
    [cache EXCEPT !.misses   = IF ret # 0 THEN @ + 1 ELSE @,
                  !.invals   = IF BitAnd(ret, 2) # 0 THEN @ + 1 ELSE @,
                  !.accesses = @ + 1]

\* __atomic_fetch_add on the miss / inval counters of one InsnData
count_insn(ht, key, missField, invalField, ret) ==
    IF ret = 0 THEN ht
    ELSE [ht EXCEPT ![key] =
             [@ EXCEPT ![missField]  = @ + 1,
                       ![invalField] = IF BitAnd(ret, 2) # 0 THEN @ + 1 ELSE @]]

(***************************************************************************)
(* One level-1 access followed, on a miss with use_l2, by the L2 access:   *)
(* the body shared by vcpu_mem_access and vcpu_insn_exec.  l1 and l2 are   *)
(* the caches of cache_idx; in = [r1, r2, g1, g2]: the random draws a RAND *)
(* replacement would use in L1 and in L2, and the stale values a read of   *)
(* an uninitialised tagh would yield there.                                *)
(***************************************************************************)
two_level_access(l1, l2, ht, key, addr, missField, invalField, in) ==
    Only({ IF a1.ret = 0 \/ ~use_l2
           THEN [l1 |-> count_access(a1.cache, a1.ret), l2 |-> l2,
                 ht |-> count_insn(ht, key, missField, invalField, a1.ret),
                 ret |-> a1.ret, blk |-> a1.blk]
           ELSE Only({ [l1 |-> count_access(a1.cache, a1.ret),
                        l2 |-> count_access(a2.cache, a2.ret),
                        ht |-> count_insn(
                                 count_insn(ht, key, missField, invalField, a1.ret),
                                 key, "l2_misses", "l2_invals", a2.ret),
                        ret |-> a1.ret, blk |-> a1.blk] :
                       a2 \in {access_cache(policy, l2, addr, in.r2, in.g2)} }) :
           a1 \in {access_cache(policy, l1, addr, in.r1, in.g1)} })

(***************************************************************************)
(* sum_stats and log_stats.  A report is the sequence of its rows; the L2  *)
(* columns of a row are printed only when both L2 numbers are non-zero.    *)
(***************************************************************************)
RECURSIVE sum_stats(_, _, _, _, _)
sum_stats(i, sm, dc, ic, l2c) ==
    IF i >= cores THEN sm
    ELSE sum_stats(i + 1,
            [l1_imisses       |-> sm.l1_imisses + ic[i].misses,
             l1_iinvals       |-> sm.l1_iinvals + ic[i].misses,
             l1_dmisses       |-> sm.l1_dmisses + dc[i].misses,
             l1_dinvals       |-> sm.l1_dinvals + dc[i].invals,
             l1_imem_accesses |-> sm.l1_imem_accesses + ic[i].accesses,
             l1_dmem_accesses |-> sm.l1_dmem_accesses + dc[i].accesses,
             l2_misses        |-> IF use_l2 THEN sm.l2_misses + l2c[i].misses
                                  ELSE sm.l2_misses,
             l2_mem_accesses  |-> IF use_l2 THEN sm.l2_mem_accesses + l2c[i].accesses
                                  ELSE sm.l2_mem_accesses,
             l2_invals        |-> IF use_l2 THEN sm.l2_invals + l2c[i].invals
                                  ELSE sm.l2_invals],
            dc, ic, l2c)

ZeroSum ==
    [l1_imisses |-> 0, l1_iinvals |-> 0, l1_dmisses |-> 0, l1_dinvals |-> 0,
     l1_imem_accesses |-> 0, l1_dmem_accesses |-> 0,
     l2_misses |-> 0, l2_mem_accesses |-> 0, l2_invals |-> 0]

append_stats_line(name, l1_daccess, l1_dmiss, l1_dinval, l1_iaccess, l1_imiss, l1_iinval, l2_access, l2_miss, l2_inval) ==
    [core |-> name,
     l1_daccess |-> l1_daccess, l1_dmisses |-> l1_dmiss, l1_dinvals |-> l1_dinval,
     l1_iaccess |-> l1_iaccess, l1_imisses |-> l1_imiss, l1_iinvals |-> l1_iinval,
     l2 |-> IF l2_access # 0 /\ l2_miss # 0
            THEN <<l2_access, l2_miss, l2_inval>> ELSE <<>>]

\* a reset that would also drop the lines of the cache
reset_counters_and_lines(cache) ==
    [cache EXCEPT !.accesses = 0, !.misses = 0, !.invals = 0,
                  !.sets = [s \in DOMAIN cache.sets |->
                              [cache.sets[s] EXCEPT !.blocks =
                                  [b \in DOMAIN cache.sets[s].blocks |->
                                      [cache.sets[s].blocks[b] EXCEPT !.valid = FALSE]]]]]

reset_counters(cache) ==
    [cache EXCEPT !.accesses = 0, !.misses = 0, !.invals = 0]

log_stats(reset, dc, ic, l2c, sm) ==
    LET rows == [i \in 1..cores |->
                   append_stats_line(i - 1,
                       dc[i - 1].accesses, dc[i - 1].misses, dc[i - 1].invals,
                       ic[i - 1].accesses, ic[i - 1].misses, ic[i - 1].invals,
                       IF use_l2 THEN l2c[i - 1].accesses ELSE 0,
                       IF use_l2 THEN l2c[i - 1].misses ELSE 0,
                       IF use_l2 THEN l2c[i - 1].invals ELSE 0)]
        dc1  == IF reset THEN [i \in DOMAIN dc |-> reset_counters(dc[i])] ELSE dc
        ic1  == IF reset THEN [i \in DOMAIN ic |-> reset_counters(ic[i])] ELSE ic
        l2c1 == IF reset /\ use_l2
                THEN [i \in DOMAIN l2c |-> reset_counters(l2c[i])] ELSE l2c
        \* sum_stats runs after the per-core loop, so after the reset
        sm1  == sum_stats(0, sm, dc1, ic1, l2c1)
        srow == append_stats_line("sum",
                    sm1.l1_dmem_accesses, sm1.l1_dmisses, sm1.l1_dinvals,
                    sm1.l1_imem_accesses, sm1.l1_imisses, sm1.l1_iinvals,
                    IF use_l2 THEN sm1.l2_mem_accesses ELSE 0,
                    IF use_l2 THEN sm1.l2_misses ELSE 0,
                    IF use_l2 THEN sm1.l2_invals ELSE 0)
    IN  [dc  |-> dc1, ic |-> ic1, l2c |-> l2c1,
         sum |-> IF cores > 1 THEN (IF reset THEN ZeroSum ELSE sm1) ELSE sm,
         rep |-> IF cores > 1 THEN rows \o <<srow>> ELSE rows]

(***************************************************************************)
(* vcpu_tb_trans.  A registration records which execution callback the     *)
(* host holds for an instruction ("none", "start", "stop" or "insn") and   *)
(* the InsnData key passed as userdata; "insn" comes with the memory       *)
(* callback vcpu_mem_access on the same userdata.                          *)
(***************************************************************************)
NoReg == [cb |-> "none", data |-> NULL]

NewInsnData(insn, effective_addr) ==
    [disas_str |-> insn.op, addr |-> effective_addr,
     l1_dmisses |-> 0, l1_imisses |-> 0, l1_dinvals |-> 0, l1_iinvals |-> 0,
     l2_misses |-> 0, l2_invals |-> 0]

\* g_hash_table_lookup, and g_hash_table_insert of a new record on NULL
intern(ht, insn, effective_addr) ==
    IF effective_addr \in DOMAIN ht THEN ht
    ELSE [k \in DOMAIN ht \cup {effective_addr} |->
            IF k = effective_addr THEN NewInsnData(insn, effective_addr)
            ELSE ht[k]]

\* the loop over the instructions of the block, from instruction i
RECURSIVE tb_trans_loop(_, _, _, _, _)
tb_trans_loop(insns, i, found, ht, regs) ==
    IF i > Len(insns) THEN [found |-> found, ht |-> ht, regs |-> regs]
    ELSE
    LET insn == insns[i]
        effective_addr == IF sys THEN insn.haddr ELSE insn.vaddr
    IN  IF use_magic_op /\ insn.op = MAGIC_OPCODE_START
        THEN tb_trans_loop(insns, i + 1, TRUE, ht,
                           [regs EXCEPT ![i] = [cb |-> "start", data |-> NULL]])
        ELSE IF use_magic_op /\ insn.op = MAGIC_OPCODE_STOP
        THEN [found |-> FALSE, ht |-> ht,
              regs |-> [regs EXCEPT ![i] = [cb |-> "stop", data |-> NULL]]]
        ELSE IF use_magic_op /\ ~found
        THEN [found |-> found, ht |-> ht, regs |-> regs]
        ELSE tb_trans_loop(insns, i + 1, found,
                           intern(ht, insn, effective_addr),
                           [regs EXCEPT ![i] = [cb |-> "insn",
                                                data |-> effective_addr]])

vcpu_tb_trans(insns, found, ht) ==
    tb_trans_loop(insns, 1, found, ht, [i \in 1..Len(insns) |-> NoReg])

(***************************************************************************)
(* The host.  A vCPU is idle or about to run instruction pos of block tb;  *)
(* phase "mem" means the instruction's execution callback has run and its  *)
(* memory access is next.                                                  *)
(***************************************************************************)
Idle == [tb |-> 0, pos |-> 0, phase |-> "idle"]

\* where vCPU v executes next: its position, or the head of any translated
\* block when it is idle
NextInsn(v) ==
    IF cur[v] = Idle
    THEN {[tb |-> t, pos |-> 1, phase |-> "exec"] : t \in {u \in DOMAIN tbs : tbs[u] # <<>>}}
    ELSE {cur[v]}

Advance(at) ==
    IF at.pos < Len(code[at.tb])
    THEN [tb |-> at.tb, pos |-> at.pos + 1, phase |-> "exec"]
    ELSE Idle

\* the guest-visible window: open once a start marker has executed, closed
\* once a stop marker has executed
WindowAfter(insn) ==
    CASE insn.op = MAGIC_OPCODE_START -> TRUE
      [] insn.op = MAGIC_OPCODE_STOP  -> FALSE
      [] OTHER -> window

\* the host translates block t (again): tb_trans callback
HostTranslate(t) ==
    /\ \A v \in DOMAIN cur : cur[v].tb # t
    /\ \E r \in {vcpu_tb_trans(code[t], magic_op_found, miss_ht)} :
           /\ magic_op_found' = r.found
           /\ miss_ht' = r.ht
           /\ tbs' = [tbs EXCEPT ![t] = r.regs]
    /\ UNCHANGED <<cfgVars, l1_dcaches, l1_icaches, l2_ucaches, sum, rep,
                   cur, nexec, obsVars, scanVars, winVars, extVars>>

\* an instruction with no callback registered executes
HostRunPlain(v) ==
    \E at \in NextInsn(v) :
        /\ at.phase = "exec"
        /\ tbs[at.tb][at.pos].cb = "none"
        /\ cur' = [cur EXCEPT ![v] = Advance(at)]
        /\ nexec' = nexec + 1
        /\ window' = WindowAfter(code[at.tb][at.pos])
        /\ nstops' = IF code[at.tb][at.pos].op = MAGIC_OPCODE_STOP
                      THEN nstops + 1 ELSE nstops
        /\ lastExec' = IF code[at.tb][at.pos].op \in {MAGIC_OPCODE_START, MAGIC_OPCODE_STOP}
                       THEN lastExec
                       ELSE [op |-> code[at.tb][at.pos].op, inWindow |-> window,
                             changed |-> FALSE, accessed |-> FALSE]
        /\ UNCHANGED <<cfgVars, plugVars, tbs, obsVars, scanVars, extVars>>

\* vcpu_start_instrumentation
VcpuStartInstrumentation(v) ==
    \E at \in NextInsn(v) :
        /\ at.phase = "exec"
        /\ tbs[at.tb][at.pos].cb = "start"
        /\ magic_op_found' = TRUE
        /\ cur' = [cur EXCEPT ![v] = Advance(at)]
        /\ nexec' = nexec + 1
        /\ window' = WindowAfter(code[at.tb][at.pos])
        /\ UNCHANGED <<cfgVars, l1_dcaches, l1_icaches, l2_ucaches, miss_ht, sum,
                       rep, tbs, obsVars, scanVars, lastExec, nstops, extVars>>

\* vcpu_stop_instrumentation: the flag, then log_stats(true)
VcpuStopInstrumentation(v) ==
    \E at \in NextInsn(v) :
        /\ at.phase = "exec"
        /\ tbs[at.tb][at.pos].cb = "stop"
        /\ magic_op_found' = FALSE
        /\ \E r \in {log_stats(TRUE, l1_dcaches, l1_icaches, l2_ucaches, sum)} :
               /\ l1_dcaches' = r.dc
               /\ l1_icaches' = r.ic
               /\ l2_ucaches' = r.l2c
               /\ sum' = r.sum
               /\ rep' = r.rep
        /\ cur' = [cur EXCEPT ![v] = Advance(at)]
        /\ nexec' = nexec + 1
        /\ window' = WindowAfter(code[at.tb][at.pos])
        /\ nstops' = nstops + 1
        /\ UNCHANGED <<cfgVars, miss_ht, tbs, obsVars, scanVars, lastExec, extVars>>

\* vcpu_insn_exec(vcpu_index = v, userdata = the registered InsnData)
VcpuInsnExec(v, at, in) ==
        LET insn      == code[at.tb][at.pos]
            key       == tbs[at.tb][at.pos].data
            cache_idx == v % cores
            skip == use_magic_op /\ ~magic_op_found
        IN  /\ at.phase = "exec"
            /\ tbs[at.tb][at.pos].cb = "insn"
            /\ IF skip
               THEN UNCHANGED <<l1_icaches, l2_ucaches, miss_ht>>
               ELSE \E r \in {two_level_access(l1_icaches[cache_idx],
                                   l2_ucaches[cache_idx], miss_ht, key,
                                   miss_ht[key].addr,
                                   "l1_imisses", "l1_iinvals", in)} :
                    /\ l1_icaches' = [l1_icaches EXCEPT ![cache_idx] = r.l1]
                    /\ l2_ucaches' = [l2_ucaches EXCEPT ![cache_idx] = r.l2]
                    /\ miss_ht' = r.ht
            /\ cur' = [cur EXCEPT ![v] =
                         IF insn.op = "load" THEN [at EXCEPT !.phase = "mem"]
                         ELSE Advance(at)]
            /\ nexec' = nexec + 1
            /\ window' = WindowAfter(insn)
            /\ lastExec' = [op |-> insn.op, inWindow |-> window,
                            changed |-> <<l1_icaches', l2_ucaches', miss_ht'>>
                                        # <<l1_icaches, l2_ucaches, miss_ht>>,
                            accessed |-> l1_icaches'[cache_idx].accesses
                                         = l1_icaches[cache_idx].accesses + 1]
            /\ UNCHANGED <<cfgVars, magic_op_found, l1_dcaches, sum, rep, tbs,
                           obsVars, scanVars, nstops, extVars>>

(***************************************************************************)
(* Reference view of an L1 address, by plain division: block, set index    *)
(* and high tag as section 4.1 of the design defines them.                 *)
(***************************************************************************)
RefBlock(a) == a \div L1Geometry.blksize

RefSet(a) == RefBlock(a) % NumSetsOf(L1Geometry)

RefLow(a) == (RefBlock(a) \div NumSetsOf(L1Geometry)) % Pow2(L1Geometry.taglsize)

RefHigh(a) == (RefBlock(a) \div NumSetsOf(L1Geometry)) \div Pow2(L1Geometry.taglsize)

\* the resident blocks of a set after address a is brought in, the line
\* evicted being the one installed by address `out` (-1: none)
RefInstall(res, a, full, out) ==
    LET same == {b \in res : RefHigh(b * L1Geometry.blksize) = RefHigh(a)}
        kept == IF same # res THEN {}
                ELSE IF full THEN res \ {RefBlock(out)} ELSE res
    IN  kept \cup {RefBlock(a)}

\* what the host may hand to the memory callback for an access to vaddr:
\* no hwaddr (user mode, or no translation), an IO hwaddr, or a RAM hwaddr
\* with a physical address
HwAddrs(targets) ==
    IF sys
    THEN {NULL, [io |-> TRUE, phys |-> 0]} \cup {[io |-> FALSE, phys |-> p] : p \in targets}
    ELSE {NULL}

\* effective_addr of vcpu_mem_access
EffectiveAddr(vaddr, hwaddr) == IF hwaddr # NULL THEN hwaddr.phys ELSE vaddr

\* the address vcpu_insn_exec accesses for the instruction at a position:
\* the addr of its InsnData (0 stands in when none is registered)
InsnAddr(at) ==
    IF tbs[at.tb][at.pos].cb = "insn" THEN miss_ht[tbs[at.tb][at.pos].data].addr
    ELSE 0

\* values g_rand_int_range(rng, 0, assoc) may return (unused unless RAND)
RandDraws(assoc) == IF policy = "RAND" THEN 0..(assoc - 1) ELSE {0}

\* values the read of sets[set of addr].tagh may yield when uninitialised
StaleReads(cache, addr) ==
    IF cache # NULL /\ cache.sets[extract_set(cache, addr)].tagh = Uninit
    THEN UninitVals ELSE {0}

\* the draws and stale reads an access by core c to addr may meet
Chances(l1, c, addr) ==
    [r1 : RandDraws(L1Geometry.assoc), r2 : RandDraws(L2Geometry.assoc),
     g1 : StaleReads(l1[c], addr), g2 : StaleReads(l2_ucaches[c], addr)]

\* what an observer of core 0's L1-D records about an access
Observe(effective_addr, ret, blk, full) ==
    LET set == RefSet(effective_addr)
    IN  /\ prevAddr' = lastAddr
        /\ lastAddr' = effective_addr
        /\ lastRet' = ret
        /\ refAccesses' = refAccesses + 1
        /\ refMisses' = IF RefBlock(effective_addr) \in resident[set]
                        THEN refMisses ELSE refMisses + 1
        /\ IF ret = 0
           THEN UNCHANGED <<installer, lastInstall, resident>>
           ELSE /\ installer' = [installer EXCEPT ![set][blk] = effective_addr]
                /\ lastInstall' = [lastInstall EXCEPT ![set] = effective_addr]
                /\ resident' = [resident EXCEPT ![set] =
                      RefInstall(@, effective_addr, full, installer[set][blk])]

(***************************************************************************)
(* vcpu_mem_access(vcpu_index = v, info -> hwaddr, vaddr, userdata)        *)
(***************************************************************************)
VcpuMemAccess(v, vaddr, hwaddr, in) ==
    LET at        == cur[v]
        key       == tbs[at.tb][at.pos].data
        skip      == (use_magic_op /\ ~magic_op_found)
                     \/ (hwaddr # NULL /\ hwaddr.io)
        effective_addr == EffectiveAddr(vaddr, hwaddr)
        cache_idx == v % cores
        set  == RefSet(effective_addr)
        full == \A b \in 0..(L1Geometry.assoc - 1) :
                    l1_dcaches[cache_idx].sets[set].blocks[b].valid
    IN  /\ at.phase = "mem"
        /\ IF skip
           THEN UNCHANGED <<l1_dcaches, l2_ucaches, miss_ht, obsVars>>
           ELSE \E r \in {two_level_access(l1_dcaches[cache_idx],
                               l2_ucaches[cache_idx], miss_ht, key, effective_addr,
                               "l1_dmisses", "l1_dinvals", in)} :
                /\ l1_dcaches' = [l1_dcaches EXCEPT ![cache_idx] = r.l1]
                /\ l2_ucaches' = [l2_ucaches EXCEPT ![cache_idx] = r.l2]
                /\ miss_ht' = r.ht
                /\ IF cache_idx # 0
                   THEN UNCHANGED obsVars
                   ELSE Observe(effective_addr, r.ret, r.blk, full)
        /\ cur' = [cur EXCEPT ![v] = Advance(at)]
        /\ lastExec' = IF hwaddr # NULL /\ hwaddr.io THEN lastExec
                       ELSE [op |-> "mem", inWindow |-> window,
                             changed |-> <<l1_dcaches', l2_ucaches', miss_ht'>>
                                         # <<l1_dcaches, l2_ucaches, miss_ht>>,
                             accessed |-> l1_dcaches'[cache_idx].accesses
                                          = l1_dcaches[cache_idx].accesses + 1]
        /\ UNCHANGED <<cfgVars, magic_op_found, l1_icaches, sum, rep, tbs, nexec,
                       window, nstops>>

(***************************************************************************)
(* A vCPU thread outside the callbacks, and the thread-local variables of  *)
(* a callback: the step it is at, the cache it works on ("d", "i" or       *)
(* "l2"), the callback it runs, its address, its InsnData, the status      *)
(* access_cache returned and the counters it has loaded.                   *)
(***************************************************************************)
NoCall == [pc |-> "idle", kind |-> "d", cb |-> "mem", addr |-> 0, key |-> 0,
           miss |-> 0, cnt |-> <<0, 0, 0>>]

\* the address tracer is not loaded
NoTracer ==
    /\ decoded = <<>>
    /\ recs = <<>>
    /\ udata = [k \in {} |-> 0]
    /\ regl = <<>>
    /\ err = <<>>
    /\ walk = <<>>
    /\ freed = <<>>

\* no miss observed yet
NoFill == [miss |-> FALSE, set |-> 0, blk |-> 0, invalid |-> {}]

\* no second run of the cache and no translation in progress
\* no key has been handed to the RSA key parser
NoKey ==
    /\ keybuf = <<>>
    /\ type = "PUBLIC"
    /\ parsed = FALSE
    /\ rsa = {}
    /\ errp = {}

Solo ==
    /\ runs = <<>>
    /\ trans = [v \in {} |-> NULL]
    /\ NoKey

(***************************************************************************)
(* The state qemu_plugin_install leaves, for a configuration and a guest.  *)
(***************************************************************************)
caches_init(pol, g, ncores) ==
    [c \in 0..(ncores - 1) |->
        cache_init(pol, g.blksize, g.assoc, g.cachesize, g.taglsize)]

Configured(pol, ncores, l2, magic, system, guest, l1, lim) ==
    /\ policy = pol
    /\ cores = ncores
    /\ use_l2 = l2
    /\ use_magic_op = magic
    /\ sys = system
    /\ code = guest
    /\ magic_op_found = FALSE
    /\ l1_dcaches = caches_init(pol, l1, ncores)
    /\ l1_icaches = caches_init(pol, l1, ncores)
    /\ l2_ucaches = IF l2 THEN caches_init(pol, L2Geometry, ncores)
                    ELSE [c \in 0..(ncores - 1) |-> NULL]
    /\ miss_ht = [k \in {} |-> NULL]
    /\ sum = ZeroSum
    /\ rep = <<>>
    /\ tbs = [t \in DOMAIN guest |-> <<>>]
    /\ nexec = 0
    /\ lastAddr = -1
    /\ prevAddr = -1
    /\ lastRet = -1
    /\ installer = [s \in 0..(NumSetsOf(L1Geometry) - 1) |->
                       [b \in 0..(L1Geometry.assoc - 1) |-> -1]]
    /\ lastInstall = [s \in 0..(NumSetsOf(L1Geometry) - 1) |-> -1]
    /\ resident = [s \in 0..(NumSetsOf(L1Geometry) - 1) |-> {}]
    /\ refAccesses = 0
    /\ refMisses = 0
    /\ window = FALSE
    /\ nstops = 0
    /\ l1_dcache_locks = [c \in 0..(ncores - 1) |-> {}]
    /\ l1_icache_locks = [c \in 0..(ncores - 1) |-> {}]
    /\ l2_ucache_locks = [c \in 0..(ncores - 1) |-> {}]
    /\ made = [k \in {"d", "i", "l2"} |-> [c \in 0..(ncores - 1) |-> 0]]
    /\ conv = [s \in 0..(NumSetsOf(l1) - 1) |-> <<>>]
    /\ convHit = FALSE
    /\ hashtable_lock = [m \in {0} |-> {}]
    /\ allocs = [k \in {} |-> 0]
    /\ NoTracer
    /\ clock = 0
    /\ stamps = [s \in 0..(NumSetsOf(l1) - 1) |->
                    [b \in 0..(l1.assoc - 1) |-> [inst |-> 0, used |-> 0]]]
    /\ fill = NoFill
    /\ limit = lim
    /\ argv = <<>>
    /\ install_ret = "0"
    /\ geometry = l1
    /\ exited = FALSE
    /\ top = <<>>
    /\ lastExec = [op |-> "none", inWindow |-> FALSE, changed |-> FALSE,
                   accessed |-> FALSE]

\* the scaled-down L1 geometry and the default limit of 32
Installed(pol, ncores, l2, magic, system, guest) ==
    Configured(pol, ncores, l2, magic, system, guest, L1Geometry, 32)

(***************************************************************************)
(* Spec: one core, no L2, no magic opcodes, user mode.  The guest is one   *)
(* load instruction executed again and again, each time on any address of  *)
(* DataAddrs: set 0 with three low tags under high tag 0 and two low tags  *)
(* under the top high tag, a second offset of block 0, and set 1.          *)
(***************************************************************************)
TopBit == Pow2(AddrBits - 1)

DataAddrs == {0, 1, 4, 8, TopBit, TopBit + 4, 2}

LoadLoop == [t \in {1} |->
               <<[op |-> "load", vaddr |-> 4, haddr |-> 4,
                  targets |-> DataAddrs]>>]

Init ==
    /\ \E pol \in EvictionPolicy : Installed(pol, 1, FALSE, FALSE, FALSE, LoadLoop)
    /\ cur = [v \in {0} |-> Idle]
    /\ thr = [v \in {0} |-> NoCall]
    /\ scan = <<>>
    /\ scanPos = 0
    /\ Solo

Translate == \E t \in DOMAIN code : HostTranslate(t)

InsnExec ==
    \E v \in DOMAIN cur :
        /\ nexec < MaxAccesses
        /\ \E at \in NextInsn(v) :
           \E in \in Chances(l1_icaches, v % cores, InsnAddr(at)) :
               VcpuInsnExec(v, at, in)
        /\ UNCHANGED scanVars

MemAccess ==
    \E v \in DOMAIN cur :
        /\ cur[v].phase = "mem"
        /\ \E vaddr \in code[cur[v].tb][cur[v].pos].targets :
           \E hwaddr \in HwAddrs(code[cur[v].tb][cur[v].pos].targets) :
           \E in \in Chances(l1_dcaches, v % cores, EffectiveAddr(vaddr, hwaddr)) :
               VcpuMemAccess(v, vaddr, hwaddr, in)
        /\ UNCHANGED <<scanVars, extVars>>

Next == Translate \/ InsnExec \/ MemAccess

Spec == Init /\ [][Next]_vars

(***************************************************************************)
(* SpecScan: the same machine fed a cyclic scan.  The stream is k or k+1   *)
(* addresses of one set with one high tag and pairwise distinct low tags   *)
(* (k = assoc), visited round robin.                                       *)
(***************************************************************************)
AddrOf(high, low, set) ==
    ((high * Pow2(L1Geometry.taglsize) + low) * NumSetsOf(L1Geometry) + set)
        * L1Geometry.blksize

LowTags == 0..(Pow2(L1Geometry.taglsize) - 1)

HighTags == 0..(WordMod \div AddrOf(1, 0, 0) - 1)

ScanStreams ==
    LET k == L1Geometry.assoc
    IN  {[i \in 1..Len(lows) |-> AddrOf(h, lows[i], s)] :
            lows \in {q \in [1..k -> LowTags] \cup [1..(k + 1) -> LowTags] :
                         \A i, j \in DOMAIN q : i # j => q[i] # q[j]},
            h \in HighTags, s \in 0..(NumSetsOf(L1Geometry) - 1)}

ScanLoop(stream) ==
    [t \in {1} |->
       <<[op |-> "load", vaddr |-> 4, haddr |-> 4,
          targets |-> {stream[i] : i \in DOMAIN stream}]>>]

InitScan ==
    /\ scan \in ScanStreams
    /\ scanPos = 0
    /\ \E pol \in EvictionPolicy : Installed(pol, 1, FALSE, FALSE, FALSE, ScanLoop(scan))
    /\ cur = [v \in {0} |-> Idle]
    /\ thr = [v \in {0} |-> NoCall]
    /\ Solo

ScanTranslate == \E t \in DOMAIN code : HostTranslate(t)

ScanInsnExec ==
    \E v \in DOMAIN cur :
        /\ nexec < MaxScan
        /\ \E at \in NextInsn(v) :
           \E in \in Chances(l1_icaches, v % cores, InsnAddr(at)) :
               VcpuInsnExec(v, at, in)
        /\ UNCHANGED scanVars

ScanAccess ==
    \E v \in DOMAIN cur :
        /\ cur[v].phase = "mem"
        /\ \E in \in Chances(l1_dcaches, v % cores, scan[(scanPos % Len(scan)) + 1]) :
               VcpuMemAccess(v, scan[(scanPos % Len(scan)) + 1], NULL, in)
        /\ scanPos' = scanPos + 1
        /\ UNCHANGED <<scan, extVars>>

NextScan == ScanTranslate \/ ScanInsnExec \/ ScanAccess

SpecScan == InitScan /\ [][NextScan]_vars

(***************************************************************************)
(* SpecMagic: magic=true.  The guest has a block that starts with the      *)
(* start marker, a block that ends with the stop marker and a block with   *)
(* a load; the host translates them (for any vCPU, at any time) and runs   *)
(* them in any order, in user mode or in system mode, with or without L2.  *)
(***************************************************************************)
MagicGuest ==
    (1 :> <<[op |-> MAGIC_OPCODE_START, vaddr |-> 0, haddr |-> 16, targets |-> {}],
            [op |-> "alu", vaddr |-> 4, haddr |-> 20, targets |-> {}]>>)
    @@ (2 :> <<[op |-> "alu", vaddr |-> 8, haddr |-> 24, targets |-> {}],
               [op |-> MAGIC_OPCODE_STOP, vaddr |-> 12, haddr |-> 28, targets |-> {}]>>)
    @@ (3 :> <<[op |-> "load", vaddr |-> 2, haddr |-> 18, targets |-> {0, 4}]>>)

InitMagic ==
    /\ \E l2 \in BOOLEAN, system \in BOOLEAN :
           Installed("LRU", 1, l2, TRUE, system, MagicGuest)
    /\ cur = [v \in {0} |-> Idle]
    /\ thr = [v \in {0} |-> NoCall]
    /\ scan = <<>>
    /\ scanPos = 0
    /\ Solo

MagicTranslate == \E t \in DOMAIN code : HostTranslate(t)

MagicRunPlain ==
    \E v \in DOMAIN cur : nexec < MaxExec /\ HostRunPlain(v)

MagicStart ==
    \E v \in DOMAIN cur : nexec < MaxExec /\ VcpuStartInstrumentation(v)

MagicStop ==
    \E v \in DOMAIN cur : nexec < MaxExec /\ VcpuStopInstrumentation(v)

MagicInsnExec ==
    \E v \in DOMAIN cur :
        /\ nexec < MaxExec
        /\ \E at \in NextInsn(v) :
           \E in \in Chances(l1_icaches, v % cores, InsnAddr(at)) :
               VcpuInsnExec(v, at, in)
        /\ UNCHANGED scanVars

MagicMemAccess ==
    \E v \in DOMAIN cur :
        /\ cur[v].phase = "mem"
        /\ \E vaddr \in code[cur[v].tb][cur[v].pos].targets :
           \E hwaddr \in HwAddrs(code[cur[v].tb][cur[v].pos].targets) :
           \E in \in Chances(l1_dcaches, v % cores, EffectiveAddr(vaddr, hwaddr)) :
               VcpuMemAccess(v, vaddr, hwaddr, in)
        /\ UNCHANGED <<scanVars, extVars>>

NextMagic ==
    \/ MagicTranslate
    \/ MagicRunPlain
    \/ MagicStart
    \/ MagicStop
    \/ MagicInsnExec
    \/ MagicMemAccess

SpecMagic == InitMagic /\ [][NextMagic]_vars

(***************************************************************************)
(* GMutex.  A mutex is the set of threads that hold it: empty when free.   *)
(***************************************************************************)
\* faulty variant: a mutex that never blocks
g_mutex_open(mutex) == TRUE

\* g_mutex_lock returns only once the mutex is free
g_mutex_available(mutex) == mutex = {}

g_mutex_lock(locks, idx, t) == [locks EXCEPT ![idx] = @ \cup {t}]

\* faulty variant: the mutex is not released
g_mutex_keep(locks, idx, t) == locks

g_mutex_unlock(locks, idx, t) == [locks EXCEPT ![idx] = @ \ {t}]

(***************************************************************************)
(* The callbacks vcpu_insn_exec and vcpu_mem_access step by step.  Both    *)
(* run the same steps on the L1 cache of their kind ("i" or "d") and then, *)
(* on a miss with use_l2, on the L2 cache: lock, access_cache with the     *)
(* atomic adds on the InsnData, the load of the cache's counters, the      *)
(* store of the incremented counters, unlock.                              *)
(***************************************************************************)
CacheKinds == {"d", "i", "l2"}

CacheOf(kind, idx) ==
    CASE kind = "d"  -> l1_dcaches[idx]
      [] kind = "i"  -> l1_icaches[idx]
      [] kind = "l2" -> l2_ucaches[idx]

LocksOf(kind) ==
    CASE kind = "d"  -> l1_dcache_locks
      [] kind = "i"  -> l1_icache_locks
      [] kind = "l2" -> l2_ucache_locks

SetCache(kind, idx, cache) ==
    /\ l1_dcaches' = IF kind = "d" THEN [l1_dcaches EXCEPT ![idx] = cache]
                     ELSE l1_dcaches
    /\ l1_icaches' = IF kind = "i" THEN [l1_icaches EXCEPT ![idx] = cache]
                     ELSE l1_icaches
    /\ l2_ucaches' = IF kind = "l2" THEN [l2_ucaches EXCEPT ![idx] = cache]
                     ELSE l2_ucaches

SetLocks(kind, locks) ==
    /\ l1_dcache_locks' = IF kind = "d" THEN locks ELSE l1_dcache_locks
    /\ l1_icache_locks' = IF kind = "i" THEN locks ELSE l1_icache_locks
    /\ l2_ucache_locks' = IF kind = "l2" THEN locks ELSE l2_ucache_locks

MissField(kind) ==
    CASE kind = "d" -> "l1_dmisses" [] kind = "i" -> "l1_imisses"
      [] kind = "l2" -> "l2_misses"

InvalField(kind) ==
    CASE kind = "d" -> "l1_dinvals" [] kind = "i" -> "l1_iinvals"
      [] kind = "l2" -> "l2_invals"

cacheVars == <<l1_dcaches, l1_icaches, l2_ucaches>>
mutexVars == <<l1_dcache_locks, l1_icache_locks, l2_ucache_locks>>
quietVars == <<cfgVars, magic_op_found, sum, rep, tbs, obsVars, scanVars, winVars,
               exitVars, instVars, moreVars>>

\* vcpu_insn_exec up to its first g_mutex_lock
InsnExecEnter(v) ==
    /\ thr[v].pc = "idle"
    /\ \E at \in NextInsn(v) :
           /\ at.phase = "exec"
           /\ tbs[at.tb][at.pos].cb = "insn"
           /\ IF use_magic_op /\ ~magic_op_found
              THEN /\ cur' = [cur EXCEPT ![v] =
                                IF code[at.tb][at.pos].op = "load"
                                THEN [at EXCEPT !.phase = "mem"] ELSE Advance(at)]
                   /\ UNCHANGED thr
              ELSE /\ cur' = [cur EXCEPT ![v] = at]
                   /\ thr' = [thr EXCEPT ![v] =
                                [NoCall EXCEPT !.pc = "lock", !.kind = "i",
                                               !.cb = "insn",
                                               !.key = tbs[at.tb][at.pos].data,
                                               !.addr = miss_ht[tbs[at.tb][at.pos].data].addr]]
    /\ nexec' = nexec + 1
    /\ UNCHANGED <<quietVars, cacheVars, miss_ht, mutexVars, made>>

\* vcpu_mem_access up to its first g_mutex_lock
MemAccessEnter(v, vaddr, hwaddr) ==
    /\ thr[v].pc = "idle"
    /\ cur[v].phase = "mem"
    /\ IF (use_magic_op /\ ~magic_op_found) \/ (hwaddr # NULL /\ hwaddr.io)
       THEN /\ cur' = [cur EXCEPT ![v] = Advance(cur[v])]
            /\ UNCHANGED thr
       ELSE /\ thr' = [thr EXCEPT ![v] =
                         [NoCall EXCEPT !.pc = "lock", !.kind = "d", !.cb = "mem",
                                        !.key = tbs[cur[v].tb][cur[v].pos].data,
                                        !.addr = EffectiveAddr(vaddr, hwaddr)]]
            /\ UNCHANGED cur
    /\ UNCHANGED <<quietVars, cacheVars, miss_ht, mutexVars, made, nexec>>

\* g_mutex_lock(&locks[cache_idx])
CbLock(v) ==
    /\ thr[v].pc = "lock"
    /\ g_mutex_available(LocksOf(thr[v].kind)[v % cores])
    /\ SetLocks(thr[v].kind, g_mutex_lock(LocksOf(thr[v].kind), v % cores, v))
    /\ thr' = [thr EXCEPT ![v].pc = "access"]
    /\ UNCHANGED <<quietVars, cacheVars, miss_ht, made, cur, nexec>>

\* miss = access_cache(caches[cache_idx], addr) and the __atomic_fetch_add
\* on the InsnData
CbAccess(v, rnd, stale) ==
    /\ thr[v].pc = "access"
    /\ \E a \in {access_cache(policy, CacheOf(thr[v].kind, v % cores),
                              thr[v].addr, rnd, stale)} :
           /\ SetCache(thr[v].kind, v % cores, a.cache)
           /\ miss_ht' = count_insn(miss_ht, thr[v].key, MissField(thr[v].kind),
                                    InvalField(thr[v].kind), a.ret)
           /\ thr' = [thr EXCEPT ![v].pc = "load", ![v].miss = a.ret]
    /\ made' = [made EXCEPT ![thr[v].kind][v % cores] = @ + 1]
    /\ UNCHANGED <<quietVars, mutexVars, cur, nexec>>

\* the loads of cache->misses++, cache->invals++, cache->accesses++
CbLoad(v) ==
    /\ thr[v].pc = "load"
    /\ thr' = [thr EXCEPT ![v].pc = "store",
                          ![v].cnt = <<CacheOf(thr[v].kind, v % cores).accesses,
                                       CacheOf(thr[v].kind, v % cores).misses,
                                       CacheOf(thr[v].kind, v % cores).invals>>]
    /\ UNCHANGED <<quietVars, cacheVars, miss_ht, mutexVars, made, cur, nexec>>

\* the stores of cache->misses++, cache->invals++, cache->accesses++
CbStore(v) ==
    /\ thr[v].pc = "store"
    /\ SetCache(thr[v].kind, v % cores,
                [CacheOf(thr[v].kind, v % cores) EXCEPT
                    !.accesses = thr[v].cnt[1] + 1,
                    !.misses   = IF thr[v].miss # 0 THEN thr[v].cnt[2] + 1 ELSE @,
                    !.invals   = IF BitAnd(thr[v].miss, 2) # 0
                                 THEN thr[v].cnt[3] + 1 ELSE @])
    /\ thr' = [thr EXCEPT ![v].pc = "unlock"]
    /\ UNCHANGED <<quietVars, miss_ht, mutexVars, made, cur, nexec>>

\* g_mutex_unlock(&locks[cache_idx]); then the L2 access, or the return
CbUnlock(v) ==
    /\ thr[v].pc = "unlock"
    /\ SetLocks(thr[v].kind, g_mutex_unlock(LocksOf(thr[v].kind), v % cores, v))
    /\ IF thr[v].kind # "l2" /\ thr[v].miss # 0 /\ use_l2
       THEN /\ thr' = [thr EXCEPT ![v].pc = "lock", ![v].kind = "l2"]
            /\ UNCHANGED cur
       ELSE /\ thr' = [thr EXCEPT ![v] = NoCall]
            /\ cur' = [cur EXCEPT ![v] =
                         IF thr[v].cb = "insn" /\ code[cur[v].tb][cur[v].pos].op = "load"
                         THEN [cur[v] EXCEPT !.phase = "mem"]
                         ELSE Advance(cur[v])]
    /\ UNCHANGED <<quietVars, cacheVars, miss_ht, made, nexec>>

(***************************************************************************)
(* SpecLocks: three vCPU threads on two cores (vCPUs 0 and 2 share core 0) *)
(* run one load instruction each time, with L2 enabled, their callbacks    *)
(* interleaved step by step.                                               *)
(***************************************************************************)
LockGuest == [t \in {1} |->
                <<[op |-> "load", vaddr |-> 4, haddr |-> 4, targets |-> {0}]>>]

InitLocks ==
    /\ Installed("LRU", 2, TRUE, FALSE, FALSE, LockGuest)
    /\ cur = [v \in {0, 1, 2} |-> Idle]
    /\ thr = [v \in {0, 1, 2} |-> NoCall]
    /\ scan = <<>>
    /\ scanPos = 0
    /\ Solo

LockTranslate == \E t \in DOMAIN code : HostTranslate(t)

LockInsnExec == \E v \in DOMAIN cur : nexec < MaxLocked /\ InsnExecEnter(v)

LockMemAccess ==
    \E v \in DOMAIN cur :
        /\ cur[v].phase = "mem"
        /\ \E vaddr \in code[cur[v].tb][cur[v].pos].targets :
           \E hwaddr \in HwAddrs(code[cur[v].tb][cur[v].pos].targets) :
               MemAccessEnter(v, vaddr, hwaddr)

LockAcquire == \E v \in DOMAIN cur : CbLock(v)

LockAccess ==
    \E v \in DOMAIN cur :
        /\ thr[v].pc = "access"
        /\ \E rnd \in RandDraws(CacheOf(thr[v].kind, v % cores).assoc) :
           \E stale \in StaleReads(CacheOf(thr[v].kind, v % cores), thr[v].addr) :
               CbAccess(v, rnd, stale)

LockLoad == \E v \in DOMAIN cur : CbLoad(v)

LockStore == \E v \in DOMAIN cur : CbStore(v)

LockRelease == \E v \in DOMAIN cur : CbUnlock(v)

NextLocks ==
    \/ LockTranslate
    \/ LockInsnExec
    \/ LockMemAccess
    \/ LockAcquire
    \/ LockAccess
    \/ LockLoad
    \/ LockStore
    \/ LockRelease

SpecLocks == InitLocks /\ [][NextLocks]_vars

(***************************************************************************)
(* log_top_insns.  g_list_sort is GLib's merge sort: the list is split     *)
(* after its first Len \div 2 elements, both parts are sorted, and the     *)
(* merge takes from the first part when the comparison is <= 0.  The       *)
(* comparison functions never return 0.                                    *)
(***************************************************************************)
dcmp(a, b) == IF a.l1_dmisses < b.l1_dmisses THEN 1 ELSE -1

icmp(a, b) == IF a.l1_imisses < b.l1_imisses THEN 1 ELSE -1

l2_cmp(a, b) == IF a.l2_misses < b.l2_misses THEN 1 ELSE -1

compare_func(which, a, b) ==
    CASE which = "d"  -> dcmp(a, b)
      [] which = "i"  -> icmp(a, b)
      [] which = "l2" -> l2_cmp(a, b)

RECURSIVE g_list_sort_merge(_, _, _)
g_list_sort_merge(l1, l2, which) ==
    IF l1 = <<>> THEN l2
    ELSE IF l2 = <<>> THEN l1
    ELSE IF compare_func(which, Head(l1), Head(l2)) <= 0
    THEN <<Head(l1)>> \o g_list_sort_merge(Tail(l1), l2, which)
    ELSE <<Head(l2)>> \o g_list_sort_merge(l1, Tail(l2), which)

RECURSIVE g_list_sort(_, _)
g_list_sort(list, which) ==
    IF Len(list) <= 1 THEN list
    ELSE g_list_sort_merge(
             g_list_sort(SubSeq(list, 1, Len(list) \div 2), which),
             g_list_sort(SubSeq(list, Len(list) \div 2 + 1, Len(list)), which),
             which)

\* the orders g_hash_table_get_values may list the records in
g_hash_table_get_values(ht) ==
    {q \in [1..Cardinality(DOMAIN ht) -> DOMAIN ht] :
        \A i, j \in DOMAIN q : i # j => q[i] # q[j]}

\* one list of the report: the first `limit` records, as address and count
top_list(list, field) ==
    [i \in 1..(IF Len(list) < limit THEN Len(list) ELSE limit) |->
        [addr |-> list[i].addr, count |-> list[i][field]]]

\* the #if 0 around qemu_plugin_outs(rep->str)
TOP_INSNS_OUTPUT == FALSE

\* log_top_insns for the records listed in the order keys; the result is
\* what it passes to qemu_plugin_outs: nothing, the call being compiled out
log_top_insns(keys) ==
    LET miss_insns == [i \in DOMAIN keys |-> miss_ht[keys[i]]]
        by_d  == g_list_sort(miss_insns, "d")
        by_i  == g_list_sort(by_d, "i")
        by_l2 == g_list_sort(by_i, "l2")
        text  == [data  |-> top_list(by_d, "l1_dmisses"),
                  fetch |-> top_list(by_i, "l1_imisses"),
                  l2    |-> IF use_l2 THEN top_list(by_l2, "l2_misses") ELSE <<>>]
    IN  IF TOP_INSNS_OUTPUT THEN <<text>> ELSE <<>>

\* plugin_exit: log_stats(false), log_top_insns(), then the frees
PluginExit ==
    /\ ~exited
    /\ \E r \in {log_stats(FALSE, l1_dcaches, l1_icaches, l2_ucaches, sum)} :
           /\ sum' = r.sum
           /\ rep' = r.rep
    /\ \E keys \in g_hash_table_get_values(miss_ht) : top' = log_top_insns(keys)
    /\ exited' = TRUE
    /\ UNCHANGED <<cfgVars, magic_op_found, cacheVars, miss_ht, hostVars, obsVars,
                   scanVars, winVars, lockVars, limit, instVars, moreVars>>

(***************************************************************************)
(* SpecStats: magic=true on two cores with one vCPU each, with or without  *)
(* L2 and with a limit of 1 or 2.  The guest has a block with the start    *)
(* marker and a load and a block with the stop marker; the host exits at   *)
(* any time.                                                               *)
(***************************************************************************)
StatsGuest ==
    (1 :> <<[op |-> MAGIC_OPCODE_START, vaddr |-> 0, haddr |-> 16, targets |-> {}],
            [op |-> "load", vaddr |-> 4, haddr |-> 20, targets |-> {0, TopBit}]>>)
    @@ (2 :> <<[op |-> MAGIC_OPCODE_STOP, vaddr |-> 12, haddr |-> 28, targets |-> {}]>>)

InitStats ==
    /\ \E l2 \in BOOLEAN, lim \in {1, 2} :
           Configured("LRU", 2, l2, TRUE, FALSE, StatsGuest, L1Geometry, lim)
    /\ cur = [v \in {0, 1} |-> Idle]
    /\ thr = [v \in {0, 1} |-> NoCall]
    /\ scan = <<>>
    /\ scanPos = 0
    /\ Solo

StatsTranslate == ~exited /\ \E t \in DOMAIN code : HostTranslate(t)

StatsStart ==
    \E v \in DOMAIN cur :
        ~exited /\ nexec < MaxStats /\ VcpuStartInstrumentation(v)

StatsStop ==
    \E v \in DOMAIN cur :
        ~exited /\ nexec < MaxStats /\ VcpuStopInstrumentation(v)

StatsInsnExec ==
    \E v \in DOMAIN cur :
        /\ ~exited
        /\ nexec < MaxStats
        /\ \E at \in NextInsn(v) :
           \E in \in Chances(l1_icaches, v % cores, InsnAddr(at)) :
               VcpuInsnExec(v, at, in)

StatsMemAccess ==
    \E v \in DOMAIN cur :
        /\ ~exited
        /\ cur[v].phase = "mem"
        /\ \E vaddr \in code[cur[v].tb][cur[v].pos].targets :
           \E hwaddr \in HwAddrs(code[cur[v].tb][cur[v].pos].targets) :
           \E in \in Chances(l1_dcaches, v % cores, EffectiveAddr(vaddr, hwaddr)) :
               VcpuMemAccess(v, vaddr, hwaddr, in)
        /\ UNCHANGED <<scanVars, extVars>>

StatsExit == PluginExit

NextStats ==
    \/ StatsTranslate
    \/ StatsStart
    \/ StatsStop
    \/ StatsInsnExec
    \/ StatsMemAccess
    \/ StatsExit

SpecStats == InitStats /\ [][NextStats]_vars

(***************************************************************************)
(* qemu_plugin_install on its arguments.  An argument is key=value after   *)
(* g_strsplit: the key, and the value as the text it is, with the number   *)
(* its leading decimal digits denote (digits FALSE: it starts with none).  *)
(***************************************************************************)
Num(n) == [digits |-> TRUE, val |-> n, text |-> "number"]

Word(w) == [digits |-> FALSE, val |-> 0, text |-> w]

\* g_ascii_strtoll(x, NULL, 10): 0 when x starts with no digit
STRTOLL(x) == IF x.digits THEN x.val ELSE 0

\* qemu_plugin_bool_parse: whether the value is a boolean, and which
qemu_plugin_bool_parse(x) ==
    [ok  |-> x.text \in {"on", "yes", "true", "off", "no", "false"},
     val |-> x.text \in {"on", "yes", "true"}]

\* the locals and globals the option loop sets, at their defaults
DefaultConfig ==
    [d |-> L1Geometry, i |-> L1Geometry, l2 |-> L2Geometry,
     limit |-> 32, cores |-> 1, use_l2 |-> FALSE, use_magic_op |-> FALSE,
     policy |-> "LRU", failed |-> FALSE]

GeometryKeys ==
    {"iblksize", "iassoc", "icachesize", "itaglsize",
     "dblksize", "dassoc", "dcachesize", "dtaglsize",
     "l2blksize", "l2assoc", "l2cachesize", "l2taglsize"}

\* the cache and the field a geometry key sets
KeyCache(key) ==
    CASE key \in {"iblksize", "iassoc", "icachesize", "itaglsize"} -> "i"
      [] key \in {"dblksize", "dassoc", "dcachesize", "dtaglsize"} -> "d"
      [] OTHER -> "l2"

KeyField(key) ==
    CASE key \in {"iblksize", "dblksize", "l2blksize"} -> "blksize"
      [] key \in {"iassoc", "dassoc", "l2assoc"} -> "assoc"
      [] key \in {"icachesize", "dcachesize", "l2cachesize"} -> "cachesize"
      [] OTHER -> "taglsize"

\* one round of the option loop
parse_option(cfg, opt) ==
    CASE opt.key \in GeometryKeys ->
           [cfg EXCEPT ![KeyCache(opt.key)][KeyField(opt.key)] = STRTOLL(opt.value),
                       !.use_l2 = IF KeyCache(opt.key) = "l2" THEN TRUE ELSE @]
      [] opt.key = "limit" -> [cfg EXCEPT !.limit = STRTOLL(opt.value)]
      [] opt.key = "cores" -> [cfg EXCEPT !.cores = STRTOLL(opt.value)]
      [] opt.key = "l2" ->
           IF qemu_plugin_bool_parse(opt.value).ok
           THEN [cfg EXCEPT !.use_l2 = qemu_plugin_bool_parse(opt.value).val]
           ELSE [cfg EXCEPT !.failed = TRUE]
      [] opt.key = "magic" ->
           IF qemu_plugin_bool_parse(opt.value).ok
           THEN [cfg EXCEPT !.use_magic_op = qemu_plugin_bool_parse(opt.value).val]
           ELSE [cfg EXCEPT !.failed = TRUE]
      [] opt.key = "replace" ->
           CASE opt.value.text = "rand" -> [cfg EXCEPT !.policy = "RAND"]
             [] opt.value.text = "lru"  -> [cfg EXCEPT !.policy = "LRU"]
             [] opt.value.text = "fifo" -> [cfg EXCEPT !.policy = "FIFO"]
             [] OTHER -> [cfg EXCEPT !.failed = TRUE]
      [] OTHER -> [cfg EXCEPT !.failed = TRUE]

RECURSIVE parse_options(_, _, _)
parse_options(cfg, args, i) ==
    IF i > Len(args) \/ cfg.failed THEN cfg
    ELSE parse_options(parse_option(cfg, args[i]), args, i + 1)

\* the g_assert of pow_of_two: (num & (num - 1)) == 0
pow_of_two_assert(num) == num = 0 \/ BitAnd(num, num - 1) = 0

(***************************************************************************)
(* How caches_init ends for a geometry: "NULL" (bad parameters, or g_new   *)
(* of zero caches), "ok", "abort" (a g_assert of pow_of_two fails in       *)
(* cache_init) or "SIGFPE".  An integer division by zero is undefined: it  *)
(* traps (trap TRUE), or it yields the quotient 0 and the dividend as      *)
(* remainder.                                                              *)
(***************************************************************************)
caches_init_outcome(g, ncores, trap) ==
    LET set_size == g.blksize * g.assoc
        by_zero  == g.blksize = 0
                    \/ (g.cachesize % g.blksize = 0 /\ set_size = 0)
        rem_blk  == IF g.blksize = 0 THEN g.cachesize ELSE g.cachesize % g.blksize
        rem_set  == IF set_size = 0 THEN g.cachesize ELSE g.cachesize % set_size
        num_sets == c_div(g.cachesize, set_size)
    IN  IF by_zero /\ trap THEN "SIGFPE"
        ELSE IF rem_blk # 0 \/ rem_set # 0 THEN "NULL"
        ELSE IF ncores = 0 THEN "NULL"
        ELSE IF ~pow_of_two_assert(num_sets) \/ ~pow_of_two_assert(g.blksize)
        THEN "abort"
        ELSE "ok"

\* qemu_plugin_install: the configuration parsed and how the call ends
qemu_plugin_install(args, trap) ==
    LET cfg == parse_options(DefaultConfig, args, 1)
        d   == caches_init_outcome(cfg.d, cfg.cores, trap)
        i   == caches_init_outcome(cfg.i, cfg.cores, trap)
        l2  == caches_init_outcome(cfg.l2, cfg.cores, trap)
    IN  [cfg |-> cfg,
         ret |-> IF cfg.failed THEN "-1"
                 ELSE IF d # "ok" THEN (IF d = "NULL" THEN "-1" ELSE d)
                 ELSE IF i # "ok" THEN (IF i = "NULL" THEN "-1" ELSE i)
                 ELSE IF cfg.use_l2 /\ l2 # "ok"
                 THEN (IF l2 = "NULL" THEN "-1" ELSE l2)
                 ELSE "0"]

\* the caches caches_init builds (none when the call does not get there)
caches_built(pol, g, ncores, built) ==
    IF built THEN caches_init(pol, g, ncores) ELSE <<>>

PluginInstall(trap) ==
    /\ install_ret = "none"
    /\ \E r \in {qemu_plugin_install(argv, trap)} :
           /\ install_ret' = r.ret
           /\ policy' = r.cfg.policy
           /\ cores' = r.cfg.cores
           /\ use_l2' = r.cfg.use_l2
           /\ use_magic_op' = r.cfg.use_magic_op
           /\ limit' = r.cfg.limit
           /\ l1_dcaches' = caches_built(r.cfg.policy, r.cfg.d, r.cfg.cores,
                                         r.ret = "0")
           /\ l1_icaches' = caches_built(r.cfg.policy, r.cfg.i, r.cfg.cores,
                                         r.ret = "0")
           /\ l2_ucaches' = caches_built(r.cfg.policy, r.cfg.l2, r.cfg.cores,
                                         r.ret = "0" /\ r.cfg.use_l2)
    /\ UNCHANGED <<sys, code, magic_op_found, miss_ht, sum, rep, hostVars, obsVars,
                   scanVars, winVars, lockVars, exited, top, argv, geometry,
                   moreVars>>

(***************************************************************************)
(* SpecInstall: qemu_plugin_install called in user mode with up to two     *)
(* arguments of Options.                                                   *)
(***************************************************************************)
OptionValues ==
    {Num(0), Num(1), Num(2), Num(3), Num(4), Num(6), Num(8), Num(16), Word("abc")}

Options ==
    [key : {"dblksize", "dassoc", "dcachesize", "iblksize", "l2assoc",
            "cores", "limit", "tagsize"},
     value : OptionValues]
    \cup [key : {"replace"}, value : {Word("lru"), Word("fifo"), Word("rand"), Word("mru")}]
    \cup [key : {"l2", "magic"}, value : {Word("on"), Word("off"), Num(1)}]

\* the globals before qemu_plugin_install has run
NotInstalled ==
    /\ policy = "LRU"
    /\ cores = 0
    /\ use_l2 = FALSE
    /\ use_magic_op = FALSE
    /\ sys = FALSE
    /\ code = <<>>
    /\ magic_op_found = FALSE
    /\ l1_dcaches = <<>>
    /\ l1_icaches = <<>>
    /\ l2_ucaches = <<>>
    /\ miss_ht = <<>>
    /\ sum = ZeroSum
    /\ rep = <<>>
    /\ tbs = <<>>
    /\ cur = <<>>
    /\ nexec = 0
    /\ lastAddr = -1
    /\ prevAddr = -1
    /\ lastRet = -1
    /\ installer = <<>>
    /\ lastInstall = <<>>
    /\ resident = <<>>
    /\ refAccesses = 0
    /\ refMisses = 0
    /\ scan = <<>>
    /\ scanPos = 0
    /\ window = FALSE
    /\ nstops = 0
    /\ lastExec = [op |-> "none", inWindow |-> FALSE, changed |-> FALSE,
                   accessed |-> FALSE]
    /\ l1_dcache_locks = <<>>
    /\ l1_icache_locks = <<>>
    /\ l2_ucache_locks = <<>>
    /\ thr = <<>>
    /\ made = <<>>
    /\ limit = 0
    /\ exited = FALSE
    /\ top = <<>>
    /\ conv = <<>>
    /\ convHit = FALSE
    /\ hashtable_lock = [m \in {0} |-> {}]
    /\ allocs = [k \in {} |-> 0]
    /\ NoTracer
    /\ clock = 0
    /\ stamps = <<>>
    /\ fill = NoFill

InitInstall ==
    /\ argv \in {<<>>} \cup {<<a>> : a \in Options}
                 \cup {<<a, b>> : a \in Options, b \in Options}
    /\ install_ret = "none"
    /\ geometry = <<>>
    /\ NotInstalled
    /\ Solo

Install == \E trap \in BOOLEAN : PluginInstall(trap)

NextInstall == Install

SpecInstall == InitInstall /\ [][NextInstall]_vars

(***************************************************************************)
(* SpecMasks: cache_init called on its own with any geometry of powers of  *)
(* two whose set index and block offset fit the address word, and any      *)
(* low-tag width from 0 to the number of address bits left.                *)
(***************************************************************************)
Geometries ==
    {g \in [blksize : {1, 2, 4}, assoc : {1, 2}, num_sets : {1, 2, 4},
            taglsize : 0..AddrBits] :
        g.taglsize <= AddrBits - pow_of_two(g.num_sets) - pow_of_two(g.blksize)}

InitMasks ==
    /\ geometry \in Geometries
    /\ argv = <<>>
    /\ install_ret = "none"
    /\ NotInstalled
    /\ Solo

CacheInit ==
    /\ l1_dcaches = <<>>
    /\ \E pol \in EvictionPolicy : \E one_shl \in shl_long(geometry.taglsize) :
           /\ policy' = pol
           /\ l1_dcaches' = [c \in {0} |->
                  cache_init_shl(pol, geometry.blksize, geometry.assoc,
                                 geometry.blksize * geometry.assoc * geometry.num_sets,
                                 geometry.taglsize, one_shl)]
    /\ UNCHANGED <<cores, use_l2, use_magic_op, sys, code, magic_op_found,
                   l1_icaches, l2_ucaches, miss_ht, sum, rep, hostVars, obsVars,
                   scanVars, winVars, extVars>>

NextMasks == CacheInit

SpecMasks == InitMasks /\ [][NextMasks]_vars

(***************************************************************************)
(* Properties.  DC is the L1-D cache of core 0, the cache every data       *)
(* access of Spec and SpecScan goes to.                                    *)
(***************************************************************************)
DC == l1_dcaches[0]

Ways == 0..(L1Geometry.assoc - 1)

ValidWays(s) == {b \in DOMAIN DC.sets[s].blocks : DC.sets[s].blocks[b].valid}

\* high tag and low tag of an address as access_cache stores them (in place)
RefTagh(a) == RefHigh(a) * AddrOf(1, 0, 0)

RefTagl(a) == RefLow(a) * AddrOf(0, 1, 0)

\* valid bits, low tags and set high tags of a cache
Content(cache) ==
    [s \in DOMAIN cache.sets |->
        [tagh |-> cache.sets[s].tagh,
         blocks |-> [b \in DOMAIN cache.sets[s].blocks |->
                       IF cache.sets[s].blocks[b].valid
                       THEN cache.sets[s].blocks[b].tagl ELSE -1]]]

\* C1: after any sequence of accesses, under LRU, FIFO or RAND, every set
\* holds at most assoc valid blocks and no two valid blocks of a set have
\* the same low tag.
C1_ValidBlocksDistinct ==
    \A s \in DOMAIN DC.sets :
        /\ Cardinality(ValidWays(s)) <= L1Geometry.assoc
        /\ \A b1, b2 \in ValidWays(s) :
               b1 # b2 => DC.sets[s].blocks[b1].tagl # DC.sets[s].blocks[b2].tagl

\* a full set whose last access replaced a block after the set had been
\* invalidated as a whole at least once
C1_Witness ==
    /\ lastRet = 1
    /\ DC.invals >= 1
    /\ DC.misses = 4
    /\ ValidWays(RefSet(lastAddr)) = Ways

\* C2: in every set with a valid block, the set's high tag is the high tag
\* of the address last installed in the set and of the address that
\* installed each block that is still valid.
C2_SetHighTag ==
    \A s \in DOMAIN DC.sets :
        ValidWays(s) # {} =>
            /\ DC.sets[s].tagh = RefTagh(lastInstall[s])
            /\ \A b \in ValidWays(s) : DC.sets[s].tagh = RefTagh(installer[s][b])

\* a set invalidated by an access that followed an installation in the
\* same set under another high tag
C2_Witness ==
    /\ lastRet = 3
    /\ prevAddr # -1
    /\ RefSet(prevAddr) = RefSet(lastAddr)
    /\ RefHigh(prevAddr) # RefHigh(lastAddr)
    /\ ValidWays(RefSet(lastAddr)) # {}

\* C3: the misses counter is the number of accesses whose block was not
\* resident (reference model of the set contents) when accessed, and the
\* accesses counter is the number of accesses.
C3_MissCount ==
    /\ DC.misses = refMisses
    /\ DC.accesses = refAccesses

\* hits, clean misses and invalidating misses have all been counted
C3_Witness ==
    /\ refAccesses = 4
    /\ refMisses = 3
    /\ DC.invals >= 1
    /\ lastRet = 0

\* C4: an access to A right after an access to B with the same set index
\* and low tag but another high tag returns 3 and leaves exactly one valid
\* block in the set: A's low tag under A's high tag.
SplitPair ==
    /\ prevAddr # -1
    /\ RefSet(prevAddr) = RefSet(lastAddr)
    /\ RefLow(prevAddr) = RefLow(lastAddr)
    /\ RefHigh(prevAddr) # RefHigh(lastAddr)

C4_SplitTagInvalidates ==
    SplitPair =>
        /\ lastRet = 3
        /\ Cardinality(ValidWays(RefSet(lastAddr))) = 1
        /\ \A b \in ValidWays(RefSet(lastAddr)) :
               DC.sets[RefSet(lastAddr)].blocks[b].tagl = RefTagl(lastAddr)
        /\ DC.sets[RefSet(lastAddr)].tagh = RefTagh(lastAddr)

\* the pair follows two installations, so the set was full before A
C4_Witness ==
    /\ SplitPair
    /\ lastRet = 3
    /\ DC.accesses = 4
    /\ DC.misses = 4

C6_RepeatHits ==
    [][(refAccesses' = refAccesses + 1 /\ lastAddr' = lastAddr)
         => (lastRet' = 0 /\ Content(l1_dcaches'[0]) = Content(l1_dcaches[0]))]_vars

\* the repeated address had been brought in by a miss on a full set
C6_Witness ==
    /\ prevAddr = lastAddr
    /\ lastRet = 0
    /\ DC.accesses = 4
    /\ DC.misses = 3

C8_FifoScan ==
    (policy = "FIFO" /\ Len(scan) = L1Geometry.assoc + 1)
        => DC.misses = DC.accesses

C8_Witness ==
    /\ policy = "FIFO"
    /\ Len(scan) = L1Geometry.assoc + 1
    /\ DC.accesses >= 2 * (L1Geometry.assoc + 1)
    /\ lastRet = 1

\* C9: with magic=true, an instruction executed while no start marker has
\* executed since install or since the last executed stop marker changes no
\* cache counter, no per-instruction counter and no cache content.
C9_ClosedWindowIdle ==
    (lastExec.op # "none" /\ ~lastExec.inWindow) => ~lastExec.changed

\* C10: with magic=true, every instruction executed after a start marker
\* has executed and before the next stop marker executes performs its L1-I
\* access, and its non-IO data access its L1-D access.
C10_OpenWindowCounts ==
    (lastExec.op # "none" /\ lastExec.inWindow) => lastExec.accessed

\* accesses, misses and invals of every core's L1-D, L1-I and L2 cache
Counters(dc, ic, l2c) ==
    [c \in DOMAIN dc |->
        [d  |-> <<dc[c].accesses, dc[c].misses, dc[c].invals>>,
         i  |-> <<ic[c].accesses, ic[c].misses, ic[c].invals>>,
         l2 |-> IF use_l2
                THEN <<l2c[c].accesses, l2c[c].misses, l2c[c].invals>>
                ELSE <<0, 0, 0>>]]

AllCountersZero(dc, ic, l2c) ==
    \A c \in DOMAIN dc :
        Counters(dc, ic, l2c)[c] = [d |-> <<0, 0, 0>>, i |-> <<0, 0, 0>>, l2 |-> <<0, 0, 0>>]

\* the per-core rows of a report show the L1 counters cnt
ReportShows(report, cnt) ==
    /\ Len(report) >= cores
    /\ \A c \in DOMAIN cnt :
           /\ report[c + 1].core = c
           /\ <<report[c + 1].l1_daccess, report[c + 1].l1_dmisses,
                report[c + 1].l1_dinvals>> = cnt[c].d
           /\ <<report[c + 1].l1_iaccess, report[c + 1].l1_imisses,
                report[c + 1].l1_iinvals>> = cnt[c].i

\* C11: the execution of a stop marker emits the per-core report of the
\* counters and resets the counters of every cache to zero, and from then
\* until a start marker executes all those counters stay at zero.
C11_StopResets ==
    [][/\ nstops' = nstops + 1 =>
            /\ ReportShows(rep', Counters(l1_dcaches, l1_icaches, l2_ucaches))
            /\ AllCountersZero(l1_dcaches', l1_icaches', l2_ucaches')
       /\ (nstops' > 0 /\ ~window') =>
            AllCountersZero(l1_dcaches', l1_icaches', l2_ucaches')]_vars

\* the cache mutexes thread t holds
Held(t) ==
    {m \in CacheKinds \X DOMAIN l1_dcache_locks : t \in LocksOf(m[1])[m[2]]}

\* thread t is inside g_mutex_lock, and the mutex is taken
Blocked(t) ==
    /\ thr[t].pc = "lock"
    /\ LocksOf(thr[t].kind)[t % cores] # {}

\* C12: a thread in an execution or memory callback holds at most one cache
\* mutex and none while it acquires one (L1 is released before L2 is
\* acquired); the thread a blocked thread waits for is at work on the very
\* cache the blocked thread wants and is not blocked itself, so whenever
\* some thread is in a callback, some thread in a callback can step.
C12_OneMutexAtATime ==
    /\ \A t \in DOMAIN thr :
           /\ Cardinality(Held(t)) <= 1
           /\ thr[t].pc = "lock" => Held(t) = {}
           /\ thr[t].pc \in {"access", "load", "store", "unlock"}
                  => Held(t) = {<<thr[t].kind, t % cores>>}
           /\ Blocked(t) =>
                  \A o \in LocksOf(thr[t].kind)[t % cores] :
                      /\ thr[o].pc \in {"access", "load", "store", "unlock"}
                      /\ thr[o].kind = thr[t].kind
                      /\ o % cores = t % cores
    /\ (\E t \in DOMAIN thr : thr[t].pc # "idle")
           => \E t \in DOMAIN thr : thr[t].pc # "idle" /\ ~Blocked(t)

\* a thread waits for the L2 mutex of its core, held by the other thread of
\* that core, while the thread of the other core is at work under a mutex
C12_Witness ==
    \E t, o, u \in DOMAIN thr :
        /\ Blocked(t)
        /\ thr[t].kind = "l2"
        /\ o \in l2_ucache_locks[t % cores]
        /\ u % cores # t % cores
        /\ Held(u) # {}

RECURSIVE SumOver(_, _)
SumOver(f, S) ==
    IF S = {} THEN 0
    ELSE LET x == CHOOSE y \in S : TRUE
         IN  f[x] + SumOver(f, S \ {x})

RecordSum(field) ==
    SumOver([k \in DOMAIN miss_ht |-> miss_ht[k][field]], DOMAIN miss_ht)

CacheMissSum(kind) ==
    SumOver([c \in DOMAIN l1_dcaches |-> CacheOf(kind, c).misses], DOMAIN l1_dcaches)

\* C13: with no stop marker executed, once every callback has returned the
\* accesses counter of each cache is the number of accesses made to it, and
\* the instruction records' l1_dmisses, l1_imisses and l2_misses add up to
\* the misses counters of the L1-D, L1-I and L2 caches of all cores.
C13_NoLostUpdate ==
    (\A t \in DOMAIN thr : thr[t].pc = "idle") =>
        /\ \A k \in CacheKinds : \A c \in DOMAIN l1_dcaches :
               CacheOf(k, c).accesses = made[k][c]
        /\ \A k \in CacheKinds : RecordSum(MissField(k)) = CacheMissSum(k)

\* the two vCPUs of core 0 and the vCPU of core 1 have all run the load
C13_Witness ==
    /\ \A t \in DOMAIN thr : thr[t].pc = "idle"
    /\ made["d"][0] = 2
    /\ made["d"][1] = 1
    /\ made["l2"][0] >= 2
    /\ RecordSum("l2_misses") >= 3

\* the L1 count columns of a row of a stats report
RowCounts(row) ==
    <<row.l1_daccess, row.l1_dmisses, row.l1_dinvals,
      row.l1_iaccess, row.l1_imisses, row.l1_iinvals>>

\* an L2 column of a row; a row prints no L2 columns when a count is zero
RowL2(row, j) == IF row.l2 = <<>> THEN 0 ELSE row.l2[j]

\* C14: with cores > 1, each count column of the "sum" row of a report (the
\* exit report or a report dumped with reset by a stop marker) is the sum
\* of that column over the per-core rows of the same report; the
\* icache-inval column is the sum of the per-core L1-I invals.
C14_SumRow ==
    (cores > 1 /\ rep # <<>>) =>
        /\ Len(rep) = cores + 1
        /\ rep[cores + 1].core = "sum"
        /\ \A j \in 1..6 :
               RowCounts(rep[cores + 1])[j]
                   = SumOver([c \in 1..cores |-> RowCounts(rep[c])[j]], 1..cores)
        /\ (\A c \in 1..(cores + 1) : rep[c].l2 # <<>>) =>
               \A j \in 1..3 :
                   RowL2(rep[cores + 1], j)
                       = SumOver([c \in 1..cores |-> RowL2(rep[c], j)], 1..cores)

\* a top-N list is in non-increasing order of its counter
NonIncreasing(list) ==
    \A i, j \in DOMAIN list : i < j => list[i].count >= list[j].count

TopEntries ==
    IF Cardinality(DOMAIN miss_ht) < limit THEN Cardinality(DOMAIN miss_ht) ELSE limit

\* C15: at host exit the top-N report is rendered: the lists of L1-D
\* misses, L1-I misses and (with L2) L2 misses each hold min(limit, number
\* of records) entries in non-increasing order of the counter.
C15_TopInsnsRendered ==
    exited =>
        /\ Len(top) = 1
        /\ \A r \in {top[i] : i \in DOMAIN top} :
               /\ NonIncreasing(r.data) /\ Len(r.data) = TopEntries
               /\ NonIncreasing(r.fetch) /\ Len(r.fetch) = TopEntries
               /\ use_l2 => (NonIncreasing(r.l2) /\ Len(r.l2) = TopEntries)

\* a power of two (zero is none)
IsPowerOfTwo(n) == \E k \in 0..AddrBits : n = Pow2(k)

\* the geometry constraints of section 3 of the design
ValidGeometry(g) ==
    /\ IsPowerOfTwo(g.cachesize) /\ IsPowerOfTwo(g.blksize) /\ IsPowerOfTwo(g.assoc)
    /\ g.cachesize % g.blksize = 0
    /\ g.cachesize % (g.blksize * g.assoc) = 0

\* an argument with a recognised key and a value of that key's kind
ValidOption(opt) ==
    CASE opt.key \in GeometryKeys \cup {"limit", "cores"} ->
           opt.value.digits /\ opt.value.val # 0
      [] opt.key \in {"l2", "magic"} ->
           opt.value.text \in {"on", "yes", "true", "off", "no", "false"}
      [] opt.key = "replace" -> opt.value.text \in {"lru", "fifo", "rand"}
      [] OTHER -> FALSE

\* the geometry of every enabled cache, as the arguments give it
EnabledGeometries ==
    LET cfg == parse_options(DefaultConfig, argv, 1)
    IN  {cfg.d, cfg.i} \cup (IF cfg.use_l2 THEN {cfg.l2} ELSE {})

ValidConfiguration ==
    /\ \A n \in DOMAIN argv : ValidOption(argv[n])
    /\ \A g \in EnabledGeometries : ValidGeometry(g)

\* C16: qemu_plugin_install returns non-zero, without aborting or crashing,
\* for every invalid configuration (unrecognised key, unparseable or zero
\* integer, unknown policy, cachesize not divisible by blksize or by
\* blksize*assoc, a cachesize, blksize or assoc that is no power of two),
\* and returns 0 only when every enabled cache meets the constraints.
C16_InstallRejects ==
    install_ret # "none" =>
        /\ ~ValidConfiguration => install_ret = "-1"
        /\ install_ret = "0" => \A g \in EnabledGeometries : ValidGeometry(g)

\* the mask of the bits from..(from + n - 1) of an address
BitField(from, n) == (Pow2(n) - 1) * Pow2(from)

\* C17: for a cache built by cache_init from a valid geometry and a low-tag
\* width from 0 to (address width - set-index bits - block-offset bits), the
\* block-offset mask, set_mask, tagl_mask and tagh_mask are pairwise
\* disjoint and cover all address bits; tagl_mask is the taglsize bits just
\* above the set index and tagh_mask the bits above them.
C17_MasksPartition ==
    l1_dcaches # <<>> =>
        LET c       == l1_dcaches[0]
            offbits == pow_of_two(geometry.blksize)
            setbits == pow_of_two(geometry.num_sets)
            blk     == geometry.blksize - 1
        IN  /\ BitAnd(blk, c.set_mask) = 0
            /\ BitAnd(blk, c.tagl_mask) = 0
            /\ BitAnd(blk, c.tagh_mask) = 0
            /\ BitAnd(c.set_mask, c.tagl_mask) = 0
            /\ BitAnd(c.set_mask, c.tagh_mask) = 0
            /\ BitAnd(c.tagl_mask, c.tagh_mask) = 0
            /\ blk + c.set_mask + c.tagl_mask + c.tagh_mask = WordMod - 1
            /\ c.set_mask = BitField(offbits, setbits)
            /\ c.tagl_mask = BitField(offbits + setbits, geometry.taglsize)
            /\ c.tagh_mask = BitField(offbits + setbits + geometry.taglsize,
                                      AddrBits - offbits - setbits - geometry.taglsize)

\* C17 for every low-tag width below the width of the address word
C17_MasksPartitionBelowWidth ==
    geometry.taglsize < AddrBits => C17_MasksPartition


(***************************************************************************)
(* SpecZero: the load loop on a cache configured with taglsize = 0, next   *)
(* to a conventional set-associative cache of the same geometry and policy *)
(* that keeps the full tag of every block.  The conventional cache is fed  *)
(* the accesses of core 0's L1-D and the same draw under RAND.             *)
(***************************************************************************)
MaxZero == 4

ZeroGeometry == [blksize |-> 2, assoc |-> 2, cachesize |-> 8, taglsize |-> 0]

\* the resident blocks of a conventional set without the one at position i
ConvDrop(blocks, i) ==
    SubSeq(blocks, 1, i - 1) \o SubSeq(blocks, i + 1, Len(blocks))

\* one access to a conventional set: blocks are kept newest first; LRU moves
\* a hit block to the front, a miss evicts the last block under LRU and FIFO
\* and the drawn block under RAND
ConvAccess(pol, blocks, blk, assoc, rnd) ==
    LET at == {i \in 1..Len(blocks) : blocks[i] = blk}
    IN  IF at # {}
        THEN [hit |-> TRUE,
              blocks |-> IF pol = "LRU" THEN <<blk>> \o ConvDrop(blocks, Only(at))
                         ELSE blocks]
        ELSE [hit |-> FALSE,
              blocks |-> IF Len(blocks) < assoc THEN <<blk>> \o blocks
                         ELSE IF pol = "RAND"
                         THEN <<blk>> \o ConvDrop(blocks, rnd + 1)
                         ELSE <<blk>> \o ConvDrop(blocks, Len(blocks))]

InitZero ==
    /\ \E pol \in EvictionPolicy :
           Configured(pol, 1, FALSE, FALSE, FALSE, LoadLoop, ZeroGeometry, 32)
    /\ cur = [v \in {0} |-> Idle]
    /\ thr = [v \in {0} |-> NoCall]
    /\ scan = <<>>
    /\ scanPos = 0
    /\ Solo

ZeroTranslate == \E t \in DOMAIN code : HostTranslate(t)

ZeroInsnExec ==
    \E v \in DOMAIN cur :
        /\ nexec < MaxZero
        /\ \E at \in NextInsn(v) :
           \E in \in Chances(l1_icaches, v % cores, InsnAddr(at)) :
               VcpuInsnExec(v, at, in)
        /\ UNCHANGED scanVars

ZeroAccess ==
    \E v \in DOMAIN cur :
        /\ cur[v].phase = "mem"
        /\ \E vaddr \in code[cur[v].tb][cur[v].pos].targets :
           \E in \in Chances(l1_dcaches, v % cores, vaddr) :
           \E r \in {ConvAccess(policy, conv[RefSet(vaddr)], RefBlock(vaddr),
                                ZeroGeometry.assoc, in.r1)} :
               /\ VcpuMemAccess(v, vaddr, NULL, in)
               /\ conv' = [conv EXCEPT ![RefSet(vaddr)] = r.blocks]
               /\ convHit' = r.hit
        /\ UNCHANGED <<scanVars, lockVars, exitVars, instVars, runs, regVars,
                       laterVars>>

NextZero == ZeroTranslate \/ ZeroInsnExec \/ ZeroAccess

SpecZero == InitZero /\ [][NextZero]_vars

\* C18: with a low-tag width of zero, every access to the split-tag cache
\* has the hit/miss outcome of the same access to a conventional
\* set-associative cache of the same geometry and policy.
C18_ZeroTagConventional ==
    lastRet # -1 => ((lastRet = 0) <=> convHit)


(***************************************************************************)
(* SpecRand: two runs of the plugin under RAND with one configuration,     *)
(* fed the same stream of data accesses.  Each run has its own generator,  *)
(* created by policy_init with g_rand_new(), which seeds it from the       *)
(* system's entropy source: the seed is any value.  The generator is       *)
(* scaled down to a full-period congruential generator on RandMod states;  *)
(* a draw is consumed only when get_replaced_block is called.              *)
(***************************************************************************)
MaxRand == 5

RandMod == 8

\* rng = g_rand_new(): the states the new generator may be in
g_rand_new == 0..(RandMod - 1)

\* g_rand_int_range(rng, 0, assoc): the next state and the value returned
g_rand_int_range(rng, assoc) ==
    LET next == (5 * rng + 3) % RandMod
    IN  [rng |-> next, val |-> (next \div 2) % assoc]

RandAddrs == {0, 4, 8}

\* one run: its generator, core 0's L1-D and the statuses access_cache returned
policy_init(seed) ==
    [rng |-> seed,
     cache |-> cache_init("RAND", L1Geometry.blksize, L1Geometry.assoc,
                          L1Geometry.cachesize, L1Geometry.taglsize),
     rets |-> <<>>]

\* vcpu_mem_access of one run: the draw is taken from the run's generator when
\* the set is full of valid blocks under the address's high tag
rand_mem_access(run, addr, stale) ==
    LET old  == read_tagh(run.cache, addr, stale).sets[extract_set(run.cache, addr)]
        draw == g_rand_int_range(run.rng, run.cache.assoc)
        r    == access_cache("RAND", run.cache, addr, draw.val, stale)
        drew == /\ r.ret # 0
                /\ old.tagh = extract_tagh(run.cache, addr)
                /\ \A b \in 0..(run.cache.assoc - 1) : old.blocks[b].valid
    IN  [rng |-> IF drew THEN draw.rng ELSE run.rng,
         cache |-> count_access(r.cache, r.ret),
         rets |-> Append(run.rets, r.ret)]

InitRand ==
    /\ Configured("RAND", 1, FALSE, FALSE, FALSE, LoadLoop, L1Geometry, 32)
    /\ cur = [v \in {0} |-> Idle]
    /\ thr = [v \in {0} |-> NoCall]
    /\ scan = <<>>
    /\ scanPos = 0
    /\ trans = [v \in {} |-> NULL]
    /\ \E sa \in g_rand_new, sb \in g_rand_new :
           runs = [a |-> policy_init(sa), b |-> policy_init(sb)]
    /\ NoKey

\* the next access of the stream, made in both runs
RandAccess ==
    /\ Len(runs.a.rets) < MaxRand
    /\ \E addr \in RandAddrs :
       \E stale \in StaleReads(runs.a.cache, addr) :
           runs' = [a |-> rand_mem_access(runs.a, addr, stale),
                    b |-> rand_mem_access(runs.b, addr, stale)]
    /\ UNCHANGED <<cfgVars, plugVars, hostVars, obsVars, scanVars, winVars,
                   lockVars, exitVars, instVars, convVars, regVars, laterVars>>

NextRand == RandAccess

SpecRand == InitRand /\ [][NextRand]_vars

\* C19: under RAND, two runs with the same configuration and the same access
\* stream have the same hit/miss sequence and the same counters.
C19_RandDeterministic ==
    /\ runs.a.rets = runs.b.rets
    /\ runs.a.cache.accesses = runs.b.cache.accesses
    /\ runs.a.cache.misses = runs.b.cache.misses


(***************************************************************************)
(* SpecRegistry: vcpu_tb_trans step by step, run by two vCPU threads that  *)
(* translate, re-translate and execute two blocks sharing the instruction  *)
(* at address 4.  Per instruction: g_mutex_lock(&hashtable_lock),          *)
(* g_hash_table_lookup, g_new0 and g_hash_table_insert when the lookup     *)
(* returned NULL, g_mutex_unlock, and the registration of the callbacks    *)
(* with the record.  The block's registrations take effect when its        *)
(* translation ends.                                                       *)
(***************************************************************************)
MaxTrans == 2

MaxRegExec == 2

RegGuest ==
    (1 :> <<[op |-> "alu", vaddr |-> 0, haddr |-> 16, targets |-> {}],
            [op |-> "alu", vaddr |-> 4, haddr |-> 20, targets |-> {}]>>)
    @@ (2 :> <<[op |-> "alu", vaddr |-> 4, haddr |-> 20, targets |-> {}]>>)

\* a vCPU thread outside vcpu_tb_trans that has run it n times; the local
\* data is the set of records it points to: {} for NULL, else one key
NoTrans(n) == [pc |-> "idle", tb |-> 0, i |-> 0, data |-> {}, regs |-> <<>>, n |-> n]

\* effective_addr of vcpu_tb_trans for an instruction
TransAddr(insn) == IF sys THEN insn.haddr ELSE insn.vaddr

\* g_hash_table_lookup(miss_ht, key): the record under the key, or NULL
g_hash_table_lookup(ht, key) == {key} \cap DOMAIN ht

\* g_hash_table_insert(miss_ht, key, value): a value already under the key is
\* replaced (and freed)
g_hash_table_insert(ht, key, value) ==
    [k \in DOMAIN ht \cup {key} |-> IF k = key THEN value ELSE ht[k]]

regQuiet == <<cfgVars, magic_op_found, l1_dcaches, l1_icaches, l2_ucaches, sum, rep,
              cur, nexec, obsVars, scanVars, winVars, lockVars, exitVars,
              instVars, convVars, runs, laterVars>>

\* the host calls vcpu_tb_trans for block t on thread v
TransEnter(v, t) ==
    /\ cur[v] = Idle
    /\ trans[v].pc = "idle"
    /\ trans[v].n < MaxTrans
    /\ trans' = [trans EXCEPT ![v] =
                    [pc |-> "lock", tb |-> t, i |-> 1, data |-> {},
                     regs |-> [i \in 1..Len(code[t]) |-> NoReg],
                     n |-> trans[v].n + 1]]
    /\ UNCHANGED <<regQuiet, miss_ht, tbs, hashtable_lock, allocs>>

\* g_mutex_lock(&hashtable_lock)
TransLock(v) ==
    /\ trans[v].pc = "lock"
    /\ g_mutex_available(hashtable_lock[0])
    /\ hashtable_lock' = g_mutex_lock(hashtable_lock, 0, v)
    /\ trans' = [trans EXCEPT ![v].pc = "lookup"]
    /\ UNCHANGED <<regQuiet, miss_ht, tbs, allocs>>

\* data = g_hash_table_lookup(miss_ht, effective_addr)
TransLookup(v) ==
    /\ trans[v].pc = "lookup"
    /\ \E data \in {g_hash_table_lookup(miss_ht,
                        TransAddr(code[trans[v].tb][trans[v].i]))} :
           trans' = [trans EXCEPT ![v].data = data,
                                  ![v].pc = IF data = {} THEN "insert"
                                            ELSE "unlock"]
    /\ UNCHANGED <<regQuiet, miss_ht, tbs, hashtable_lock, allocs>>

\* data = g_new0(InsnData, 1), filled in and inserted
TransInsert(v) ==
    LET insn == code[trans[v].tb][trans[v].i]
        effective_addr == TransAddr(insn)
    IN  /\ trans[v].pc = "insert"
        /\ miss_ht' = g_hash_table_insert(miss_ht, effective_addr,
                                          NewInsnData(insn, effective_addr))
        /\ allocs' = [k \in DOMAIN allocs \cup {effective_addr} |->
                        IF k = effective_addr
                        THEN (IF k \in DOMAIN allocs THEN allocs[k] ELSE 0) + 1
                        ELSE allocs[k]]
        /\ trans' = [trans EXCEPT ![v].data = {effective_addr},
                                  ![v].pc = "unlock"]
        /\ UNCHANGED <<regQuiet, tbs, hashtable_lock>>

\* g_mutex_unlock(&hashtable_lock)
TransUnlock(v) ==
    /\ trans[v].pc = "unlock"
    /\ hashtable_lock' = g_mutex_unlock(hashtable_lock, 0, v)
    /\ trans' = [trans EXCEPT ![v].pc = "register"]
    /\ UNCHANGED <<regQuiet, miss_ht, tbs, allocs>>

\* qemu_plugin_register_vcpu_mem_cb and ..._insn_exec_cb with data, then the
\* next instruction of the block or the end of the translation
TransRegister(v) ==
    LET t    == trans[v].tb
        regs == [trans[v].regs EXCEPT ![trans[v].i] =
                    [cb |-> "insn", data |-> Only(trans[v].data)]]
    IN  /\ trans[v].pc = "register"
        /\ IF trans[v].i < Len(code[t])
           THEN /\ trans' = [trans EXCEPT ![v].regs = regs, ![v].i = @ + 1,
                                          ![v].data = {}, ![v].pc = "lock"]
                /\ UNCHANGED tbs
           ELSE /\ trans' = [trans EXCEPT ![v] = NoTrans(trans[v].n)]
                /\ tbs' = [tbs EXCEPT ![t] = regs]
        /\ UNCHANGED <<regQuiet, miss_ht, hashtable_lock, allocs>>

InitRegistry ==
    /\ \E system \in BOOLEAN :
           Installed("LRU", 2, FALSE, FALSE, system, RegGuest)
    /\ cur = [v \in {0, 1} |-> Idle]
    /\ thr = [v \in {0, 1} |-> NoCall]
    /\ scan = <<>>
    /\ scanPos = 0
    /\ runs = <<>>
    /\ trans = [v \in {0, 1} |-> NoTrans(0)]
    /\ NoKey

RegEnter == \E v \in DOMAIN cur, t \in DOMAIN code : TransEnter(v, t)

RegLock == \E v \in DOMAIN cur : TransLock(v)

RegLookup == \E v \in DOMAIN cur : TransLookup(v)

RegInsert == \E v \in DOMAIN cur : TransInsert(v)

RegUnlock == \E v \in DOMAIN cur : TransUnlock(v)

RegRegister == \E v \in DOMAIN cur : TransRegister(v)

RegInsnExec ==
    \E v \in DOMAIN cur :
        /\ trans[v].pc = "idle"
        /\ nexec < MaxRegExec
        /\ \E at \in NextInsn(v) :
           \E in \in Chances(l1_icaches, v % cores, InsnAddr(at)) :
               VcpuInsnExec(v, at, in)

NextRegistry ==
    \/ RegEnter \/ RegLock \/ RegLookup \/ RegInsert \/ RegUnlock
    \/ RegRegister \/ RegInsnExec

SpecRegistry == InitRegistry /\ [][NextRegistry]_vars

\* every instruction with the registration made for it, by a finished
\* translation or by one in progress
Registered ==
    UNION {{<<code[t][i], tbs[t][i]>> : i \in DOMAIN tbs[t]} : t \in DOMAIN tbs}
    \cup UNION {{<<code[trans[v].tb][i], trans[v].regs[i]>> :
                    i \in DOMAIN trans[v].regs} : v \in DOMAIN trans}

\* one record per instrumented effective address, allocated once, and every
\* registration made with the record of its instruction's address
RegistryOK ==
    /\ DOMAIN allocs = DOMAIN miss_ht
    /\ \A k \in DOMAIN miss_ht : miss_ht[k].addr = k /\ allocs[k] = 1
    /\ \A p \in Registered :
          p[2].cb = "insn" => /\ p[2].data = TransAddr(p[1])
                              /\ p[2].data \in DOMAIN miss_ht

CounterFields ==
    {"l1_dmisses", "l1_imisses", "l1_dinvals", "l1_iinvals", "l2_misses", "l2_invals"}

\* a step keeps every record and lowers none of its counters
CountersKept ==
    \A k \in DOMAIN miss_ht :
        /\ k \in DOMAIN miss_ht'
        /\ \A f \in CounterFields : miss_ht'[k][f] >= miss_ht[k][f]

\* C20: after any sequence of translations, concurrent ones and
\* re-translations included, the registry holds exactly one record per
\* instrumented effective address, every registration is made with that
\* record, and no step of a translation resets a record's counters.
C20_OneRecordPerAddress == [][RegistryOK' /\ CountersKept]_vars

\* a thread re-translating a block registers the callbacks of an instruction
\* whose record has counted a miss, while the other thread is translating
C20_Witness ==
    \E v \in DOMAIN trans, u \in DOMAIN trans :
        /\ v # u
        /\ trans[v].pc = "register"
        /\ tbs[trans[v].tb] # <<>>
        /\ miss_ht[Only(trans[v].data)].l1_imisses > 0
        /\ trans[u].pc \notin {"idle"}


(***************************************************************************)
(* The address tracer (trackdep.c).  Its translation callback classifies   *)
(* every instruction from the tokens of its disassembly.  A disassembly is *)
(* modelled as the sequence of its lexemes: runs of letters and digits,    *)
(* and the characters between them.                                        *)
(***************************************************************************)
rv_fmt_rd_rs1_rs2 ==
    {"add", "sub", "sll", "slt", "sltu", "xor", "srl", "sra", "or", "and",
     "addw", "subw", "sllw", "srlw", "sraw", "addd", "subd", "slld", "srld",
     "srad", "mul", "mulh", "mulhsu", "mulhu", "div", "divu", "rem", "remu",
     "mulw", "divw", "divuw", "remw", "remuw", "muld", "divd", "divud", "remd",
     "remud"}

rv_fmt_rd_imm == {"lui", "auipc", "jal"}

rv_fmt_rd_rs1_imm ==
    {"jalr", "addi", "slti", "sltiu", "xori", "ori", "andi", "slli", "srli",
     "srai", "addiw", "slliw", "srliw", "sraiw", "addid", "sllid", "srlid",
     "sraid"}

rv_fmt_rs1_rs2_offset == {"beq", "bne", "blt", "bge", "bltu", "bgeu"}

rv_fmt_rd_offset_rs1 == {"lb", "lh", "lw", "lbu", "lhu", "lwu", "ld", "ldu", "lq"}

rv_fmt_rs2_offset_rs1 == {"sb", "sh", "sw", "sd", "sq"}

rv_fmt_aqrl_rd_rs1 == {"lr"}

rv_fmt_aqrl_rd_rs2_rs1 ==
    {"sc", "amoswap", "amoadd", "amoxor", "amoor", "amoand", "amomin", "amomax",
     "amominu", "amomaxu"}

rv_fmt_rs1_rs2 == {"sfence"}

rv_fmt_rd_csr_rs1 == {"csrrw", "csrrs", "csrrc"}

rv_fmt_rd_csr_zimm == {"csrrwi", "csrrsi", "csrrci"}

rv_fmt_frd_offset_rs1 == {"flw", "fld", "flq"}

rv_fmt_frs2_offset_rs1 == {"fsw", "fsd", "fsq"}

rv_fmt_fp ==
    {"fmadd", "fmsub", "fnmsub", "fnmadd", "fadd", "fsub", "fmul",
     "fdiv", "fsgnj", "fsgnjn", "fsgnjx", "fmin", "fmax", "fsqrt",
     "fle", "flt", "feq", "fcvt", "fmv", "fclass"}

rv_fmt_none ==
    {"illegal", "fence", "ecall", "ebreak",
     "uret", "sret", "hret", "mret", "dret", "wfi"}

\* typedef enum rop
rop_none == 0
rop_rd == 1
rop_rs1 == 2
rop_rs2 == 4

rv_ireg_name ==
    <<"zero", "ra",   "sp",   "gp",   "tp",   "t0",   "t1",   "t2",
      "s0",   "s1",   "a0",   "a1",   "a2",   "a3",   "a4",   "a5",
      "a6",   "a7",   "s2",   "s3",   "s4",   "s5",   "s6",   "s7",
      "s8",   "s9",   "s10",  "s11",  "t3",   "t4",   "t5",   "t6">>

\* the NULL that ends the token array
NullTok == "(null)"

\* regno: the index of a register name, or -1
regno(s) ==
    IF \E i \in 1..32 : rv_ireg_name[i] = s
    THEN (CHOOSE i \in 1..32 : rv_ireg_name[i] = s) - 1
    ELSE -1

\* the characters g_str_tokenize_and_fold breaks a string at
Separators == {" ", ",", "(", ")", ".", "-", "+"}

IsWord(lexeme) == lexeme \notin Separators

\* g_str_tokenize_and_fold(insn_disas, NULL, NULL): the runs of letters and
\* digits, in order (the disassembly is lower case ASCII already)
g_str_tokenize_and_fold(string) == SelectSeq(string, IsWord)

\* tk[j] of the NULL-terminated token array
tk_at(tk, j) == IF j < Len(tk) THEN tk[j + 1] ELSE NullTok

\* while (regno(tk[k]) == -1) k++;   (stops at the terminating NULL here:
\* the code would read past the array)
RECURSIVE skip_aqrl(_, _)
skip_aqrl(tk, k) ==
    IF k >= Len(tk) \/ regno(tk_at(tk, k)) # -1 THEN k
    ELSE skip_aqrl(tk, k + 1)

\* what malloc'ed memory that was never written may hold: the 4-bit addr
\* field and the three int8_t register fields
UninitAddr == {rop_none, rop_rd, rop_rs1, rop_rs2, rop_rd + rop_rs1}

UninitReg == {-1, 10, 77}

\* the tables of the classifier
ShapeTables ==
    UNION {rv_fmt_rd_rs1_rs2, rv_fmt_rd_imm, rv_fmt_rd_rs1_imm, rv_fmt_rs1_rs2_offset,
           rv_fmt_rd_offset_rs1, rv_fmt_rs2_offset_rs1, rv_fmt_aqrl_rd_rs1,
           rv_fmt_aqrl_rd_rs2_rs1, rv_fmt_rs1_rs2, rv_fmt_rd_csr_rs1,
           rv_fmt_rd_csr_zimm, rv_fmt_frd_offset_rs1, rv_fmt_frs2_offset_rs1,
           rv_fmt_fp, rv_fmt_none}

Mnemonic(insn_disas) == tk_at(g_str_tokenize_and_fold(insn_disas), 1)

\* regs = malloc(sizeof(*regs)): the contents <<addr, rd, rs1, rs2>> of the new
\* memory; they are overwritten whenever a table matches
malloc_insnregs(insn_disas) ==
    IF Mnemonic(insn_disas) \in ShapeTables THEN {<<rop_none, -1, -1, -1>>}
    ELSE UninitAddr \X UninitReg \X UninitReg \X UninitReg

insnregs(addr, r_rd, r_rs1, r_rs2, insn, vaddr) ==
    [addr |-> addr, insn |-> insn, vaddr |-> vaddr,
     rd |-> r_rd, rs1 |-> r_rs1, rs2 |-> r_rs2]

\* the body of the loop of vcpu_tb_trans for one instruction: the record the
\* classifier leaves in *regs, where mem = <<addr, rd, rs1, rs2>> is what the
\* memory malloc returned holds (no table matching, no field is written)
classify(insn_disas, insn_vaddr, mem) ==
    LET tk == g_str_tokenize_and_fold(insn_disas)
        op == tk_at(tk, 1)
        r(j) == regno(tk_at(tk, j))
        k  == skip_aqrl(tk, 2)
        rec(addr, r_rd, r_rs1, r_rs2) ==
            insnregs(addr, r_rd, r_rs1, r_rs2, insn_disas, insn_vaddr)
    IN  CASE op \in rv_fmt_rd_rs1_rs2 -> rec(rop_none, r(2), r(3), r(4))
          [] op \in rv_fmt_rd_imm -> rec(rop_rd, r(2), -1, -1)
          [] op \in rv_fmt_rd_rs1_imm ->
                rec(IF op = "jalr" THEN rop_rs1 ELSE rop_none, r(2), r(3), -1)
          [] op \in rv_fmt_rs1_rs2_offset -> rec(rop_none, -1, r(2), r(3))
          [] op \in rv_fmt_rd_offset_rs1 -> rec(rop_rs1, r(2), r(4), -1)
          [] op \in rv_fmt_rs2_offset_rs1 -> rec(rop_rs1, -1, r(4), r(2))
          [] op \in rv_fmt_aqrl_rd_rs1 -> rec(rop_rs1, -1, r(k + 1), r(k))
          [] op \in rv_fmt_aqrl_rd_rs2_rs1 -> rec(rop_rs1, r(k), r(k + 2), r(k + 1))
          [] op \in rv_fmt_rs1_rs2 -> rec(rop_rs1, -1, r(3), r(4))
          [] op \in rv_fmt_rd_csr_rs1 -> rec(rop_none, r(2), r(4), -1)
          [] op \in rv_fmt_rd_csr_zimm -> rec(rop_none, r(3), -1, -1)
          [] op \in rv_fmt_frd_offset_rs1 -> rec(rop_rs1, -1, r(4), -1)
          [] op \in rv_fmt_frs2_offset_rs1 -> rec(rop_rs1, -1, r(3), -1)
          [] op \in rv_fmt_fp -> rec(rop_none, -1, -1, -1)
          [] op \in rv_fmt_none -> rec(rop_none, -1, -1, -1)
          [] OTHER -> rec(mem[1], mem[2], mem[3], mem[4])


(***************************************************************************)
(* SpecDecode: the classifier applied to disassemblies in the operand      *)
(* syntax the RISC-V disassembler prints for each format, over a sample of *)
(* register names, offsets and aq/rl suffixes, and to mnemonics that are   *)
(* in none of the tables (pseudo-instructions).                            *)
(***************************************************************************)
\* the instruction's binary representation, printed first
Hex == "00000013"

IntRegs == {"zero", "a0", "t6"}

Offsets == {<<"0">>, <<"-", "8">>}

AqRl == {<<>>, <<".", "aq">>, <<".", "aqrl">>}

fmt_3(op, a, b, c) == <<Hex, " ", op, " ", a, ",", b, ",", c>>

fmt_2(op, a, b) == <<Hex, " ", op, " ", a, ",", b>>

fmt_offset(op, a, offset, b) ==
    <<Hex, " ", op, " ", a, ",">> \o offset \o <<"(", b, ")">>

fmt_aqrl(op, aqrl, operands) == <<Hex, " ", op, ".", "w">> \o aqrl \o operands

\* the disassemblies of the formats whose tables mark rs1 as the address
DisasRs1 ==
    {fmt_offset("ld", a, o, b) : a \in IntRegs, o \in Offsets, b \in IntRegs}
    \cup {fmt_offset("sd", a, o, b) : a \in IntRegs, o \in Offsets, b \in IntRegs}
    \cup {fmt_aqrl("lr", q, <<" ", a, ",", "(", b, ")">>) :
             q \in AqRl, a \in IntRegs, b \in IntRegs}
    \cup {fmt_aqrl("amoadd", q, <<" ", a, ",", b, ",", "(", "a0", ")">>) :
             q \in AqRl, a \in IntRegs, b \in IntRegs}
    \cup {fmt_aqrl("sc", <<>>, <<" ", "a0", ",", a, ",", "(", b, ")">>) :
             a \in IntRegs, b \in IntRegs}
    \cup {<<Hex, " ", "sfence", ".", "vma", " ", a, ",", b>> :
             a \in IntRegs, b \in IntRegs}
    \cup {fmt_offset("flw", "fa0", o, b) : o \in Offsets, b \in IntRegs}
    \cup {fmt_offset("fsw", "fa0", o, b) : o \in Offsets, b \in IntRegs}
    \cup {fmt_3("jalr", a, b, "0") : a \in IntRegs, b \in IntRegs}

\* disassemblies of the other formats
DisasOther ==
    {fmt_3("add", a, b, c) : a \in IntRegs, b \in IntRegs, c \in IntRegs}
    \cup {fmt_2(op, a, "4096") : op \in rv_fmt_rd_imm, a \in IntRegs}
    \cup {fmt_3("addi", a, b, "1") : a \in IntRegs, b \in IntRegs}
    \cup {fmt_3("beq", a, b, "16") : a \in IntRegs, b \in IntRegs}
    \cup {fmt_3("csrrw", a, "mstatus", b) : a \in IntRegs, b \in IntRegs}
    \cup {fmt_3("csrrwi", a, "mstatus", "5") : a \in IntRegs}
    \cup {<<Hex, " ", "fadd", ".", "s", " ", "fa0", ",", "fa1", ",", "fa2">>,
          <<Hex, " ", "ecall">>, <<Hex, " ", "fence", ".", "i">>}

\* disassemblies whose mnemonic is in no table
DisasUnmatched ==
    {<<Hex, " ", "ret">>, <<Hex, " ", "nop">>}
    \cup {fmt_2("mv", "a0", b) : b \in IntRegs}

Disas == DisasRs1 \cup DisasOther \cup DisasUnmatched

\* everything the cache plugin owns but the host's exit flag
splitVars == <<cfgVars, plugVars, hostVars, obsVars, scanVars, winVars, lockVars,
               limit, top, instVars, convVars, runs, regVars, evictVars,
               keyVars>>

InitDecode ==
    /\ NotInstalled
    /\ argv = <<>>
    /\ install_ret = "0"
    /\ geometry = L1Geometry
    /\ Solo

\* one iteration of the loop of vcpu_tb_trans, up to next_insn
Classify ==
    \E insn_disas \in Disas :
    \E mem \in malloc_insnregs(insn_disas) :
        /\ decoded' = classify(insn_disas, 0, mem)
        /\ UNCHANGED <<splitVars, exited, recs, udata, regl, err, walk, freed>>

NextDecode == Classify

SpecDecode == InitDecode /\ [][NextDecode]_vars

\* C21: every record the classifier produces with address_source =
\* rs1-is-address, for a matched instruction in the standard operand syntax
\* of its shape, has an rs1 register index in 0..31.
C21_Rs1IsRegister ==
    (decoded # <<>> /\ Mnemonic(decoded.insn) \in ShapeTables
        /\ decoded.addr = rop_rs1)
    => decoded.rs1 \in 0..31

\* C21 holds for every rs1 shape but the float stores
C21_Rs1IsRegisterButFloatStores ==
    (decoded # <<>> /\ Mnemonic(decoded.insn) \in ShapeTables
        /\ Mnemonic(decoded.insn) \notin rv_fmt_frs2_offset_rs1
        /\ decoded.addr = rop_rs1)
    => decoded.rs1 \in 0..31

\* C22: an instruction whose mnemonic is in none of the tables gets a record
\* with address_source = none and rd, rs1 and rs2 unused.
C22_UnmatchedIsSkipped ==
    (decoded # <<>> /\ Mnemonic(decoded.insn) \notin ShapeTables)
    => /\ decoded.addr = rop_none
       /\ decoded.rd = -1 /\ decoded.rs1 = -1 /\ decoded.rs2 = -1


(***************************************************************************)
(* SpecTrack: the address tracer at run time.  The host translates         *)
(* instructions (one per translation block), executes them in any order,   *)
(* and exits.  vcpu_insn_exec prepends the instruction's record to regl    *)
(* and, for a record with addr = rs1, prints it and walks the history with *)
(* dump_dependencies, which is followed call by call: walk holds the       *)
(* frames of the calls in progress, innermost first, above the frame of    *)
(* vcpu_insn_exec itself.  History positions count from 1, the newest.     *)
(***************************************************************************)
MaxHist == 4

MaxRecs == 5

\* the guest: vaddr -> disassembly
TrackGuest ==
    (0 :> fmt_2("auipc", "a0", "4096"))
    @@ (4 :> fmt_3("addi", "a0", "a0", "1"))
    @@ (8 :> fmt_offset("ld", "a1", <<"0">>, "a0"))
    @@ (12 :> fmt_3("add", "a0", "a1", "a1"))
    @@ (16 :> fmt_offset("sd", "a1", <<"0">>, "a0"))
    @@ (20 :> fmt_offset("fsw", "fa0", <<"0">>, "a0"))

\* fprintf(stderr, "0x%08lx %s\n", r->vaddr, r->insn)
line(r) == [vaddr |-> r.vaddr, insn |-> r.insn]

\* fprintf(stderr, "@@@@@@@@@@@@@@@@@\n")
separator == [vaddr |-> -1, insn |-> <<"@@@@@@@@@@@@@@@@@">>]

\* the record at a history position
data(pos) == recs[regl[pos]]

\* faulty variant: the scan starts at l itself
l_self(l) == l

\* for (GSList *s = l->next; ...): where the scan of a call starts
l_next(l) == l + 1

\* faulty variant: no producer is printed
differs_never(r_vaddr, vaddr) == FALSE

\* if (r->vaddr != vaddr): the line of a producer is printed
differs(r_vaddr, vaddr) == r_vaddr # vaddr

\* the frame of a call dump_dependencies(l, rn)
dump_frame(l, rn) == [fn |-> "dump", l |-> l, s |-> l_next(l), rn |-> rn, at |-> "for"]

\* the frame of vcpu_insn_exec while its walk runs
exec_frame == [fn |-> "exec", l |-> 0, s |-> 0, rn |-> -1, at |-> "walk"]

\* the host between the translation of a block and its execution
host_frame(insn_vaddr) ==
    [fn |-> "host", l |-> insn_vaddr, s |-> 0, rn |-> -1, at |-> "run"]

trackQuiet == <<splitVars, decoded>>

\* vcpu_tb_trans for the block holding the instruction at vaddr, which the
\* host is about to run
TrackTranslate(insn_vaddr) ==
    /\ ~exited
    /\ walk = <<>>
    /\ Len(recs) < MaxRecs
    /\ Len(regl) < MaxHist
    /\ \E mem \in malloc_insnregs(TrackGuest[insn_vaddr]) :
           recs' = Append(recs, classify(TrackGuest[insn_vaddr], insn_vaddr, mem))
    /\ udata' = [v \in DOMAIN udata \cup {insn_vaddr} |->
                    IF v = insn_vaddr THEN Len(recs) + 1 ELSE udata[v]]
    /\ walk' = <<host_frame(insn_vaddr)>>
    /\ UNCHANGED <<trackQuiet, exited, regl, err, freed>>

\* vcpu_insn_exec(cpu_index, udata), up to the call of dump_dependencies: the
\* host runs the block it has just translated, or one translated earlier
TrackInsnExec(insn_vaddr) ==
    /\ ~exited
    /\ walk \in {<<>>, <<host_frame(insn_vaddr)>>}
    /\ Len(regl) < MaxHist
    /\ insn_vaddr \in DOMAIN udata
    /\ regl' = <<udata[insn_vaddr]>> \o regl
    /\ IF recs[udata[insn_vaddr]].addr = rop_rs1
       THEN /\ err' = Append(err, line(recs[udata[insn_vaddr]]))
            /\ walk' = <<dump_frame(1, recs[udata[insn_vaddr]].rs1), exec_frame>>
       ELSE /\ walk' = <<>>
            /\ UNCHANGED err
    /\ UNCHANGED <<trackQuiet, exited, recs, udata, freed>>

\* dump_dependencies: one iteration of the for loop of the innermost call
DumpScan ==
    /\ walk # <<>>
    /\ walk[1].fn = "dump" /\ walk[1].at = "for"
    /\ LET f == walk[1]
           pop == Tail(walk)
       IN  IF f.s > Len(regl)
           THEN walk' = pop /\ UNCHANGED err
           ELSE LET r == data(f.s)
                IN  IF r.rd # f.rn
                    THEN /\ walk' = <<[f EXCEPT !.s = f.s + 1]>> \o pop
                         /\ UNCHANGED err
                    ELSE /\ err' = IF differs(r.vaddr, data(f.l).vaddr)
                                   THEN Append(err, line(r)) ELSE err
                         /\ walk' =
                              IF BitAnd(r.addr % 16, rop_rd) = rop_rd THEN pop
                              ELSE IF r.rs1 # -1
                              THEN <<dump_frame(f.s, r.rs1), [f EXCEPT !.at = "rs2"]>>
                                   \o pop
                              ELSE IF r.rs2 # -1
                              THEN <<dump_frame(f.s, r.rs2), [f EXCEPT !.at = "break"]>>
                                   \o pop
                              ELSE pop
    /\ UNCHANGED <<trackQuiet, exited, recs, udata, regl, freed>>

\* dump_dependencies: back from the call for rs1, the call for rs2
DumpRs2 ==
    /\ walk # <<>>
    /\ walk[1].fn = "dump" /\ walk[1].at = "rs2"
    /\ LET f == walk[1]
           r == data(f.s)
       IN  walk' = IF r.rs2 # -1
                   THEN <<dump_frame(f.s, r.rs2), [f EXCEPT !.at = "break"]>>
                        \o Tail(walk)
                   ELSE Tail(walk)
    /\ UNCHANGED <<trackQuiet, exited, recs, udata, regl, err, freed>>

\* dump_dependencies: the break after the call for rs2
DumpBreak ==
    /\ walk # <<>>
    /\ walk[1].fn = "dump" /\ walk[1].at = "break"
    /\ walk' = Tail(walk)
    /\ UNCHANGED <<trackQuiet, exited, recs, udata, regl, err, freed>>

\* vcpu_insn_exec after dump_dependencies returned: the separator
TrackSeparator ==
    /\ walk = <<exec_frame>>
    /\ err' = Append(err, separator)
    /\ walk' = <<>>
    /\ UNCHANGED <<trackQuiet, exited, recs, udata, regl, freed>>

\* plugin_exit: free(r) for every element of regl
plugin_exit_frees(list) ==
    [id \in 1..Len(recs) |-> Cardinality({pos \in 1..Len(list) : list[pos] = id})]

TrackExit ==
    /\ ~exited
    /\ \A i \in DOMAIN walk : walk[i].fn = "host"
    /\ exited' = TRUE
    /\ freed' = plugin_exit_frees(regl)
    /\ walk' = <<>>
    /\ UNCHANGED <<trackQuiet, recs, udata, regl, err>>

InitTrack == InitDecode

TrackTrans == \E insn_vaddr \in DOMAIN TrackGuest : TrackTranslate(insn_vaddr)

TrackExec == \E insn_vaddr \in DOMAIN TrackGuest : TrackInsnExec(insn_vaddr)

NextWalk == DumpScan \/ DumpRs2 \/ DumpBreak \/ TrackSeparator

NextTrack == TrackTrans \/ TrackExec \/ NextWalk \/ TrackExit

SpecTrack == InitTrack /\ [][NextTrack]_vars

\* the callback, once entered, runs on
SpecTrackLive == SpecTrack /\ WF_vars(NextWalk)


\* ---- the dependency walk ends ----

\* vcpu_insn_exec is between its first fprintf and the separator
InWalk == \E i \in DOMAIN walk : walk[i].fn = "exec"

\* the calls of dump_dependencies now on the stack, innermost first
DumpCalls == {i \in DOMAIN walk : walk[i].fn = "dump"}

\* a call scans below its own start, and was started where its caller had
\* found the producer, which lies below the caller's start
StrictlyOlder ==
    \A i \in DumpCalls :
        /\ walk[i].s > walk[i].l
        /\ (i + 1) \in DumpCalls =>
               walk[i].l = walk[i + 1].s /\ walk[i].l > walk[i + 1].l

SeparatorEmitted ==
    walk = <<>> /\ err # <<>> /\ err[Len(err)] = separator

\* C23: every recursive call of dump_dependencies starts at a history position
\* strictly older than its caller's, and the walk a triggering instruction
\* starts always reaches the point where the separator is emitted.
C23_WalkTerminates == []StrictlyOlder /\ (InWalk ~> SeparatorEmitted)

\* a call of dump_dependencies made by a call of dump_dependencies
C23_Witness ==
    /\ Len(walk) >= 3
    /\ walk[1].fn = "dump" /\ walk[2].fn = "dump"
    /\ walk[1].l >= 2


\* ---- the walk stops at a producer whose rd is an address ----

\* the addresses of the executed instructions, most recent first
Hist == [pos \in 1..Len(regl) |-> data(pos).vaddr]

\* the innermost call of dump_dependencies is at a node that writes the
\* register it traces
AtProducer ==
    /\ walk # <<>>
    /\ walk[1].fn = "dump" /\ walk[1].at = "for"
    /\ walk[1].s <= Len(regl)
    /\ data(walk[1].s).rd = walk[1].rn

\* ... and that node is of rd-is-address kind (lui, auipc, jal)
AtRdProducer ==
    AtProducer /\ BitAnd(data(walk[1].s).addr % 16, rop_rd) = rop_rd

\* the line the program prints for the guest instruction at vaddr
guest_line(vaddr) == [vaddr |-> vaddr, insn |-> TrackGuest[vaddr]]

\* auipc a0,X; addi a0,a0,Y; ld a1,0(a0) were executed in that order and the
\* callback of the ld has returned
ChainRun == Hist = <<8, 4, 0>> /\ walk = <<>>

ChainOutput == <<guest_line(8), guest_line(4), guest_line(0), separator>>

\* C24: a producer of rd-is-address kind found by the walk is emitted and the
\* call returns without looking at anything older; after auipc, addi, ld the
\* output is the ld line, the addi line, the auipc line and the separator.
C24_StopsAtRdProducer ==
    /\ [][AtRdProducer =>
              /\ err' = Append(err, line(data(walk[1].s)))
              /\ walk' = Tail(walk)]_vars
    /\ [](ChainRun => err = ChainOutput)

\* the chain was run and its four lines are out
C24_Witness == ChainRun /\ err = ChainOutput /\ Len(err) = 4


\* ---- what the walk passes through ----

\* the walk goes on through the node it is at: dump_dependencies is called for
\* its source registers
PassesThrough == AtProducer /\ ~AtRdProducer

\* C25: every branch of a trace ends at a producer of rd-is-address kind or at
\* the end of the history, and every instruction the walk passes through on
\* its way is of shape rd_rs1_rs2 or rd_rs1_imm.
C25_ChainOfArithmetic ==
    PassesThrough =>
        Mnemonic(data(walk[1].s).insn) \in rv_fmt_rd_rs1_rs2 \cup rv_fmt_rd_rs1_imm


\* ---- duplicate suppression ----

\* the line emitted last
last_line == err[Len(err)]

\* C26: within a trace a producer is emitted if and only if its vaddr differs
\* from the vaddr of the line emitted immediately before, so no two
\* consecutive lines of a trace carry the same vaddr, also when the rs1 and
\* rs2 branches of a producer lead to the same instruction.
C26_SuppressesConsecutive ==
    [][AtProducer =>
           ((err' # err) <=> (data(walk[1].s).vaddr # last_line.vaddr))]_vars


\* ---- release at exit ----

\* the records of the instructions that were executed
Executed == {regl[pos] : pos \in 1..Len(regl)}

\* C27: at host exit every decode record is freed exactly once, however many
\* times its instruction was executed; no record is freed twice.
C27_FreedOnce == exited => \A id \in Executed : freed[id] = 1



(***************************************************************************)
(* SpecEvict: the load loop on one set of core 0's L1-D, under each        *)
(* policy, next to an observer that stamps every block with the time it    *)
(* was installed and the time it was last accessed, and records what every *)
(* access found in its set and which block it hit or filled.               *)
(***************************************************************************)
MaxEvict == 6

\* set 0: three low tags under high tag 0 and one block under the top one
EvictAddrs == {0, 4, 8, TopBit}

EvictLoop == [t \in {1} |->
                <<[op |-> "load", vaddr |-> 4, haddr |-> 4,
                   targets |-> EvictAddrs]>>]

\* the set as get_invalid_block sees it in access_cache: after the ways were
\* invalidated when the high tag of the access is not that of the set
set_at_choice(cache0, addr, stale) ==
    LET cache == read_tagh(cache0, addr, stale)
        old   == cache.sets[extract_set(cache, addr)]
    IN  IF old.tagh # extract_tagh(cache, addr)
        THEN invalidate_ways(old, extract_tagh(cache, addr), cache.assoc)
        ELSE old

\* the invalid blocks of a set
InvalidWays(set, assoc) == {b \in 0..(assoc - 1) : ~set.blocks[b].valid}

\* the stamps after the access at time now hit or filled block blk of set
Stamp(st, set, blk, miss, now) ==
    [st EXCEPT ![set][blk] = [inst |-> IF miss THEN now ELSE @.inst,
                              used |-> now]]

InitEvict ==
    /\ \E pol \in EvictionPolicy :
           Configured(pol, 1, FALSE, FALSE, FALSE, EvictLoop, L1Geometry, 32)
    /\ cur = [v \in {0} |-> Idle]
    /\ thr = [v \in {0} |-> NoCall]
    /\ scan = <<>>
    /\ scanPos = 0
    /\ Solo

EvictTranslate == \E t \in DOMAIN code : HostTranslate(t)

EvictInsnExec ==
    \E v \in DOMAIN cur :
        /\ nexec < MaxEvict
        /\ \E at \in NextInsn(v) :
           \E in \in Chances(l1_icaches, v % cores, InsnAddr(at)) :
               VcpuInsnExec(v, at, in)
        /\ UNCHANGED scanVars

EvictAccess ==
    \E v \in DOMAIN cur :
        /\ cur[v].phase = "mem"
        /\ \E vaddr \in code[cur[v].tb][cur[v].pos].targets :
           \E in \in Chances(l1_dcaches, v % cores, vaddr) :
           \E r \in {access_cache(policy, l1_dcaches[0], vaddr, in.r1, in.g1)} :
           \E set \in {extract_set(l1_dcaches[0], vaddr)} :
               /\ VcpuMemAccess(v, vaddr, NULL, in)
               /\ clock' = clock + 1
               /\ stamps' = Stamp(stamps, set, r.blk, r.ret # 0, clock + 1)
               /\ fill' = [miss |-> r.ret # 0, set |-> set, blk |-> r.blk,
                           invalid |-> InvalidWays(
                               set_at_choice(l1_dcaches[0], vaddr, in.g1),
                               l1_dcaches[0].assoc)]
        /\ UNCHANGED <<scanVars, lockVars, exitVars, instVars, convVars, runs,
                       regVars, trackVars, keyVars>>

NextEvict == EvictTranslate \/ EvictInsnExec \/ EvictAccess

SpecEvict == InitEvict /\ [][NextEvict]_vars

\* the access just made missed in a set all of whose blocks were valid
FullSetMiss == clock' = clock + 1 /\ fill'.miss /\ fill'.invalid = {}

\* the blocks of the set of the access just made
WaysOf(cache) == 0..(cache.assoc - 1)


\* C28: under FIFO, after any sequence of accesses including invalidations of
\* a whole set, a miss on a set all of whose blocks are valid evicts the block
\* that was installed earliest among the blocks now valid.
C28_FifoEvictsEarliest ==
    [][(policy = "FIFO" /\ FullSetMiss) =>
           \A b \in WaysOf(l1_dcaches[0]) :
               stamps[fill'.set][fill'.blk].inst <= stamps[fill'.set][b].inst]_vars


\* ---- which block a miss fills ----

\* the least element of a non-empty set of block indices
Lowest(S) == CHOOSE b \in S : \A c \in S : b <= c

\* the valid blocks whose content the access just made has replaced
Evicted ==
    {b \in WaysOf(l1_dcaches[0]) :
        /\ b \notin fill'.invalid
        /\ l1_dcaches'[0].sets[fill'.set].blocks[b]
               # l1_dcaches[0].sets[fill'.set].blocks[b]}

\* C30: a miss on a set that has an invalid block fills the lowest-indexed
\* invalid block and evicts no valid block; the policy chooses the victim
\* only when every block of the set is valid, and the victim is a block
\* index of 0..assoc-1.
C30_FillsInvalidFirst ==
    [][(clock' = clock + 1 /\ fill'.miss) =>
           /\ fill'.blk \in WaysOf(l1_dcaches[0])
           /\ fill'.invalid # {} =>
                  /\ fill'.blk = Lowest(fill'.invalid)
                  /\ Evicted = {}
                  /\ l1_dcaches'[0].sets[fill'.set].fifo_queue
                         = <<fill'.blk>> \o l1_dcaches[0].sets[fill'.set].fifo_queue
                     \/ policy # "FIFO"
           /\ fill'.invalid = {} => Evicted = {fill'.blk}]_vars

\* after an invalidation of the set, a miss found block 0 valid and block 1
\* invalid and filled block 1
C30_Witness ==
    /\ fill.miss /\ fill.invalid = {1} /\ fill.blk = 1
    /\ l1_dcaches[0].invals > 1



(***************************************************************************)
(* SpecLongRun: the load loop under LRU on three blocks of one set, long   *)
(* enough for the generation counter of the set to leave the range of int. *)
(***************************************************************************)
MaxLong == 11

LongAddrs == {0, 4, 8}

LongLoop == [t \in {1} |->
               <<[op |-> "load", vaddr |-> 4, haddr |-> 4,
                  targets |-> LongAddrs]>>]

InitLong ==
    /\ Configured("LRU", 1, FALSE, FALSE, FALSE, LongLoop, L1Geometry, 32)
    /\ cur = [v \in {0} |-> Idle]
    /\ thr = [v \in {0} |-> NoCall]
    /\ scan = <<>>
    /\ scanPos = 0
    /\ Solo

LongInsnExec ==
    \E v \in DOMAIN cur :
        /\ nexec < MaxLong
        /\ \E at \in NextInsn(v) :
           \E in \in Chances(l1_icaches, v % cores, InsnAddr(at)) :
               VcpuInsnExec(v, at, in)
        /\ UNCHANGED scanVars

NextLong == EvictTranslate \/ LongInsnExec \/ EvictAccess

SpecLongRun == InitLong /\ [][NextLong]_vars

\* the block the access just made has replaced is the valid block whose most
\* recent access is the oldest, and is not the block the access before hit
EvictsLeastRecent ==
    (policy = "LRU" /\ FullSetMiss) =>
        /\ \A b \in WaysOf(l1_dcaches[0]) :
               stamps[fill'.set][fill'.blk].used <= stamps[fill'.set][b].used
        /\ (clock > 0 /\ ~fill.miss /\ fill.set = fill'.set) => fill'.blk # fill.blk

\* C29: under LRU a miss on a full set evicts the valid block whose most
\* recent access is the oldest, and the block that was just hit is never the
\* next victim when the set has more than one block.
C29_LruEvictsLeastRecent == [][EvictsLeastRecent]_vars

\* the same while the generation counter of the set is within the range of int
C29_LruWithinInt ==
    [][l1_dcaches[0].sets[fill'.set].lru_gen_counter < Pow2(IntBits - 1)
           => EvictsLeastRecent]_vars



(***************************************************************************)
(* SpecReset: magic=true with L2.  Two vCPU threads share core 0; the      *)
(* guest has a block with the start marker and a load and a block with the *)
(* stop marker.  The cache callbacks run step by step, each of             *)
(* cache->misses++, cache->invals++ and cache->accesses++ being one step,  *)
(* while the other thread may execute a marker: vcpu_stop_instrumentation  *)
(* takes no mutex.                                                         *)
(***************************************************************************)
MaxReset == 4

ResetGuest ==
    (1 :> <<[op |-> MAGIC_OPCODE_START, vaddr |-> 0, haddr |-> 16, targets |-> {}],
            [op |-> "load", vaddr |-> 4, haddr |-> 20, targets |-> {0}]>>)
    @@ (2 :> <<[op |-> MAGIC_OPCODE_STOP, vaddr |-> 12, haddr |-> 28, targets |-> {}]>>)

\* after access_cache: on to the first counter the status makes the callback
\* increment
after_access(miss) == IF miss # 0 THEN "misses" ELSE "accesses"

\* if (miss) { ...; cache->misses++;
CbMisses(v) ==
    /\ thr[v].pc = "misses"
    /\ SetCache(thr[v].kind, v % cores,
                [CacheOf(thr[v].kind, v % cores) EXCEPT !.misses = @ + 1])
    /\ thr' = [thr EXCEPT ![v].pc = IF BitAnd(thr[v].miss, 2) # 0
                                    THEN "invals" ELSE "accesses"]
    /\ UNCHANGED <<quietVars, miss_ht, mutexVars, made, cur, nexec>>

\* if (miss & 0b10) { ...; cache->invals++; }
CbInvals(v) ==
    /\ thr[v].pc = "invals"
    /\ SetCache(thr[v].kind, v % cores,
                [CacheOf(thr[v].kind, v % cores) EXCEPT !.invals = @ + 1])
    /\ thr' = [thr EXCEPT ![v].pc = "accesses"]
    /\ UNCHANGED <<quietVars, miss_ht, mutexVars, made, cur, nexec>>

\* cache->accesses++;
CbAccesses(v) ==
    /\ thr[v].pc = "accesses"
    /\ SetCache(thr[v].kind, v % cores,
                [CacheOf(thr[v].kind, v % cores) EXCEPT !.accesses = @ + 1])
    /\ thr' = [thr EXCEPT ![v].pc = "unlock"]
    /\ UNCHANGED <<quietVars, miss_ht, mutexVars, made, cur, nexec>>

\* access_cache and the atomic adds, then the counters one by one
CbAccessCount(v, rnd, stale) ==
    /\ thr[v].pc = "access"
    /\ \E a \in {access_cache(policy, CacheOf(thr[v].kind, v % cores),
                              thr[v].addr, rnd, stale)} :
           /\ SetCache(thr[v].kind, v % cores, a.cache)
           /\ miss_ht' = count_insn(miss_ht, thr[v].key, MissField(thr[v].kind),
                                    InvalField(thr[v].kind), a.ret)
           /\ thr' = [thr EXCEPT ![v].pc = after_access(a.ret), ![v].miss = a.ret]
    /\ made' = [made EXCEPT ![thr[v].kind][v % cores] = @ + 1]
    /\ UNCHANGED <<quietVars, mutexVars, cur, nexec>>

InitReset ==
    /\ Installed("LRU", 1, TRUE, TRUE, FALSE, ResetGuest)
    /\ cur = [v \in {0, 1} |-> Idle]
    /\ thr = [v \in {0, 1} |-> NoCall]
    /\ scan = <<>>
    /\ scanPos = 0
    /\ Solo

ResetTranslate == \E t \in DOMAIN code : HostTranslate(t)

ResetStart ==
    \E v \in DOMAIN cur :
        nexec < MaxReset /\ thr[v].pc = "idle" /\ VcpuStartInstrumentation(v)

ResetStop ==
    \E v \in DOMAIN cur :
        nexec < MaxReset /\ thr[v].pc = "idle" /\ VcpuStopInstrumentation(v)

ResetInsnExec == \E v \in DOMAIN cur : nexec < MaxReset /\ InsnExecEnter(v)

ResetMemAccess ==
    \E v \in DOMAIN cur :
        /\ cur[v].phase = "mem"
        /\ \E vaddr \in code[cur[v].tb][cur[v].pos].targets :
               MemAccessEnter(v, vaddr, NULL)

ResetAcquire == \E v \in DOMAIN cur : CbLock(v)

ResetAccess ==
    \E v \in DOMAIN cur :
        /\ thr[v].pc = "access"
        /\ \E rnd \in RandDraws(CacheOf(thr[v].kind, v % cores).assoc) :
           \E stale \in StaleReads(CacheOf(thr[v].kind, v % cores), thr[v].addr) :
               CbAccessCount(v, rnd, stale)

ResetMisses == \E v \in DOMAIN cur : CbMisses(v)

ResetInvals == \E v \in DOMAIN cur : CbInvals(v)

ResetAccesses == \E v \in DOMAIN cur : CbAccesses(v)

ResetRelease == \E v \in DOMAIN cur : CbUnlock(v)

NextReset ==
    \/ ResetTranslate
    \/ ResetStart
    \/ ResetStop
    \/ ResetInsnExec
    \/ ResetMemAccess
    \/ ResetAcquire
    \/ ResetAccess
    \/ ResetMisses
    \/ ResetInvals
    \/ ResetAccesses
    \/ ResetRelease

SpecReset == InitReset /\ [][NextReset]_vars


\* ---- who writes a cache ----

\* the caches of the configuration: kind and core
Caches == {<<kind, idx>> : kind \in CacheKinds, idx \in 0..(cores - 1)}

\* the threads that take a step of a callback in this step
Stepping == {t \in DOMAIN thr : thr'[t] # thr[t]}

\* C31: in every interleaving of vCPU threads, the sets, blocks and counters
\* of a cache are written only by a thread that holds the mutex of that
\* cache, the reset of the counters by a stop marker included.
C31_WritesUnderMutex ==
    [][\A c \in Caches :
           CacheOf(c[1], c[2])' # CacheOf(c[1], c[2]) =>
               \E t \in Stepping : t \in LocksOf(c[1])[c[2]]]_vars


\* ---- what the walk reports ----

\* the innermost call of dump_dependencies prints the node it is at as the
\* producer of the register it traces
Reports ==
    AtProducer /\ differs(data(walk[1].s).vaddr, data(walk[1].l).vaddr)

\* C32: every producer reported for a traced register r on behalf of a
\* consumer is the most recently executed instruction before the consumer
\* whose rd is r, and r is a register index of 0..31 that the consumer reads,
\* never the unused sentinel.
C32_ReportsLatestWriter ==
    Reports =>
        /\ walk[1].rn \in 0..31
        /\ walk[1].rn \in {data(walk[1].l).rs1, data(walk[1].l).rs2}
        /\ \A pos \in (walk[1].l + 1)..(walk[1].s - 1) : data(pos).rd # walk[1].rn

\* the same for the walks that trace a register
C32_LatestWriterOfRegister ==
    (Reports /\ walk[1].rn # -1) =>
        /\ walk[1].rn \in 0..31
        /\ walk[1].rn \in {data(walk[1].l).rs1, data(walk[1].l).rs2}
        /\ \A pos \in (walk[1].l + 1)..(walk[1].s - 1) : data(pos).rd # walk[1].rn


\* ---- the counters of a cache ----

\* the caches no thread is working on
Unlocked == {c \in Caches : LocksOf(c[1])[c[2]] = {}}

\* the statuses access_cache returns: hit, miss, miss with invalidation
AccessStatus == {0, 1, 3}

CountersOrdered(cache) ==
    cache.invals <= cache.misses /\ cache.misses <= cache.accesses

\* C33: access_cache returns only 0, 1 or 3, and under any interleaving of
\* vCPU callbacks and stop-marker resets every cache has
\* invals <= misses <= accesses.
C33_CountersOrdered ==
    /\ \A t \in DOMAIN thr : thr[t].miss \in AccessStatus
    /\ \A c \in Unlocked : CountersOrdered(CacheOf(c[1], c[2]))

\* the status alone
C33_StatusOnly == \A t \in DOMAIN thr : thr[t].miss \in AccessStatus


\* ---- L2 is consulted once per L1 miss ----

\* no callback is in flight
Quiescent == \A t \in DOMAIN thr : thr[t].pc = "idle"

\* C34: with L2 enabled, whenever no callback is in flight the accesses
\* counter of a core's L2 equals the core's L1-I misses plus its L1-D misses,
\* under any interleaving of vCPU callbacks and stop-marker resets.
C34_L2AccessesAreL1Misses ==
    (use_l2 /\ Quiescent) =>
        \A idx \in 0..(cores - 1) :
            l2_ucaches[idx].accesses
                = l1_icaches[idx].misses + l1_dcaches[idx].misses



\* ---- the FIFO queue of a set ----

\* the valid blocks of a set
ValidBlocks(set, assoc) == {b \in 0..(assoc - 1) : set.blocks[b].valid}

\* the queue holds exactly the valid blocks of the set, each once
QueueHoldsValid(set, assoc) ==
    /\ {set.fifo_queue[i] : i \in DOMAIN set.fifo_queue} = ValidBlocks(set, assoc)
    /\ Len(set.fifo_queue) = Cardinality(ValidBlocks(set, assoc))
    /\ Len(set.fifo_queue) <= assoc

\* the queue runs from the block installed last, at its head, to the block
\* installed first, at its tail
InInstallationOrder(q, st) ==
    \A i, j \in DOMAIN q : i < j => st[q[i]].inst > st[q[j]].inst

\* C35: under FIFO, after any sequence of accesses, the queue of each set
\* holds exactly the indices of the valid blocks of the set, each once, in
\* the order of their installation, and is never longer than assoc.
C35_FifoQueueIsValidBlocks ==
    policy = "FIFO" =>
        /\ \A idx \in 0..(cores - 1) :
           \A cache \in {l1_icaches[idx], l1_dcaches[idx]} :
           \A s \in DOMAIN cache.sets :
               QueueHoldsValid(cache.sets[s], cache.assoc)
        /\ \A s \in DOMAIN l1_dcaches[0].sets :
               InInstallationOrder(l1_dcaches[0].sets[s].fifo_queue, stamps[s])

\* the same as long as no access to the cache has invalidated a set
C35_WithoutInvalidation ==
    (policy = "FIFO" /\ l1_dcaches[0].invals = 0) =>
        /\ \A s \in DOMAIN l1_dcaches[0].sets :
               /\ QueueHoldsValid(l1_dcaches[0].sets[s], l1_dcaches[0].assoc)
               /\ InInstallationOrder(l1_dcaches[0].sets[s].fifo_queue, stamps[s])



\* ---- what a stop marker leaves alone ----

\* a stop marker executes
StopExecutes == nstops' = nstops + 1

\* the caches the plugin has allocated
CachesInUse == {c \in Caches : c[1] = "l2" => use_l2}

\* everything of a cache but its three counters: geometry, masks, and per set
\* the high tag, the blocks (valid bit, low tag) and the eviction metadata
Contents(cache) ==
    [f \in DOMAIN cache \ {"accesses", "misses", "invals"} |-> cache[f]]

\* the addresses of the guest
AllAddrs == 0..(Pow2(AddrBits) - 1)

\* C36: executing the stop marker changes only the counters of the caches, the
\* global sums and the window flag: valid bits, low tags, high tags of sets,
\* eviction metadata and the miss and invalidation counters of every
\* instruction record are unchanged, so a line that was resident before the
\* stop is found by in_cache after it.
C36_StopKeepsLines ==
    [][StopExecutes =>
           /\ miss_ht' = miss_ht
           /\ \A c \in CachesInUse :
                  /\ Contents(CacheOf(c[1], c[2])') = Contents(CacheOf(c[1], c[2]))
                  /\ \A addr \in AllAddrs :
                         in_cache(CacheOf(c[1], c[2])', addr)
                             = in_cache(CacheOf(c[1], c[2]), addr)]_vars

\* after a stop marker has reset the counters, the accesses counted since
\* have all hit lines the L1-I cache held before
C36_Witness ==
    /\ nstops > 0
    /\ rep # <<>> /\ rep[1].l1_imisses > 0
    /\ l1_icaches[0].accesses > 0
    /\ l1_icaches[0].misses = 0




(***************************************************************************)
(* The RSA key parser (rsakey-nettle): qcrypto_akcipher_rsakey_parse on    *)
(* every byte string of a bounded length over a small set of bytes.  The   *)
(* DER iterator is the one of libnettle (asn1.h), whose three functions   *)
(* the parser calls; an iterator is the record of the fields of struct     *)
(* asn1_der_iterator, with data the length bytes of the current element.   *)
(***************************************************************************)
MaxKeyLen == 7

\* as a tag: primitive 0, INTEGER, OCTET STRING, SEQUENCE, and a constructed
\* context-specific 2; as a length: 0, 2, 4, and three that are too long
KeyBytes == {0, 2, 4, 48, 162}

\* the public key type, and a value outside QCryptoAkCipherKeyType
KeyTypes == {"PUBLIC", "UNKNOWN"}

ASN1_TYPE_CONSTRUCTED == 4096
ASN1_CLASS_SHIFT == 13
ASN1_INTEGER == 2
ASN1_SEQUENCE == 16 + ASN1_TYPE_CONSTRUCTED

\* asn1_der_iterator_init
asn1_der_iterator_init(length, input) ==
    [buffer |-> SubSeq(input, 1, length), pos |-> 0,
     type |-> 0, length |-> 0, data |-> <<>>]

\* the bytes of the buffer the iterator has not consumed: LEFT(i)
LEFT(i) == Len(i.buffer) - i.pos

\* the big-endian value of the k bytes after the first p of buf
RECURSIVE long_length(_, _, _)
long_length(buf, p, k) ==
    IF k = 0 THEN 0
    ELSE long_length(buf, p, k - 1) * 256 + buf[p + k]

\* i->type of an element with this tag byte: the tag number, the class
\* shifted to ASN1_CLASS_SHIFT, and ASN1_TYPE_CONSTRUCTED
type_of_tag(tag) ==
    (tag % 32) + (tag \div 64) * Pow2(ASN1_CLASS_SHIFT)
        + (IF (tag \div 32) % 2 = 1 THEN ASN1_TYPE_CONSTRUCTED ELSE 0)

\* asn1_der_iterator_next: the result and the iterator after the call
asn1_der_iterator_next(i) ==
    IF LEFT(i) = 0 THEN [res |-> "END", i |-> i]
    ELSE
    LET tag == i.buffer[i.pos + 1]
        i1  == [i EXCEPT !.pos = @ + 1]
    IN  IF LEFT(i1) = 0 \/ tag % 32 = 31 THEN [res |-> "ERROR", i |-> i1]
        ELSE
        LET lb   == i1.buffer[i1.pos + 1]
            i2   == [i1 EXCEPT !.pos = @ + 1, !.length = lb]
            long == lb >= 128
            k    == lb % 128
        IN  IF long /\ (k = 0 \/ LEFT(i2) < k \/ k > 4)
            THEN [res |-> "ERROR", i |-> i2]
            ELSE
            LET i3 == IF long
                      THEN [i2 EXCEPT !.pos = @ + k,
                                      !.length = i2.buffer[i2.pos + 1]]
                      ELSE i2
            IN  IF long /\ (i3.length = 0 \/ (k = 1 /\ i3.length < 128))
                THEN [res |-> "ERROR", i |-> i3]
                ELSE
                LET i4 == IF long
                          THEN [i3 EXCEPT !.length = long_length(i2.buffer, i2.pos, k)]
                          ELSE i3
                IN  IF LEFT(i4) < i4.length THEN [res |-> "ERROR", i |-> i4]
                    ELSE [res |-> IF (tag \div 32) % 2 = 1
                                  THEN "CONSTRUCTED" ELSE "PRIMITIVE",
                          i   |-> [i4 EXCEPT
                                     !.data = SubSeq(i4.buffer, i4.pos + 1,
                                                     i4.pos + i4.length),
                                     !.pos  = @ + i4.length,
                                     !.type = type_of_tag(tag)]]

\* asn1_der_iterator_first
asn1_der_iterator_first(length, input) ==
    asn1_der_iterator_next(asn1_der_iterator_init(length, input))

\* asn1_der_decode_constructed_last: an error when bytes follow the element,
\* else the iterator restarts on the content of the element
asn1_der_decode_constructed_last(i) ==
    IF LEFT(i) > 0 THEN [res |-> "ERROR", i |-> i]
    ELSE asn1_der_iterator_first(i.length, i.data)

\* DumpMPI: a copy of the content of the current element
DumpMPI(i) == [data |-> i.data, len |-> i.length]

\* GetMPI: the next element, which must be a primitive INTEGER
GetMPI(i) ==
    LET n == asn1_der_iterator_next(i)
    IN  IF n.res # "PRIMITIVE" \/ n.i.type # ASN1_INTEGER
        THEN [ok |-> FALSE, i |-> n.i, mpi |-> DumpMPI(i)]
        ELSE [ok |-> TRUE, i |-> n.i, mpi |-> DumpMPI(n.i)]

\* what a parser returns: the key (none for NULL) and what *errp holds
Parsed(n, e) == [rsa |-> {[n |-> n, e |-> e]}, errp |-> {}]
Failed(msg) == [rsa |-> {}, errp |-> {msg}]

\* qcrypto_nettle_rsa_public_key_parse
qcrypto_nettle_rsa_public_key_parse(input, keylen) ==
    LET f == asn1_der_iterator_first(keylen, input)
    IN  IF f.res # "CONSTRUCTED" \/ f.i.type # ASN1_SEQUENCE
        THEN Failed("Failed to parse RSA public key")
        ELSE
        LET c == asn1_der_decode_constructed_last(f.i)
        IN  IF c.res # "PRIMITIVE"
            THEN Failed("Failed to parse RSA public key")
            ELSE
            LET g == GetMPI(c.i)
            IN  IF ~g.ok \/ asn1_der_iterator_next(g.i).res # "END"
                THEN Failed("Failed to parse RSA public key")
                ELSE Parsed(DumpMPI(c.i), g.mpi)

\* qcrypto_akcipher_rsakey_parse, on the key types drawn: the public one and
\* the default of the switch
qcrypto_akcipher_rsakey_parse(t, input, keylen) ==
    IF t = "PUBLIC" THEN qcrypto_nettle_rsa_public_key_parse(input, keylen)
    ELSE Failed("Unknown key type")

InitKey ==
    /\ NotInstalled
    /\ argv = <<>>
    /\ install_ret = "0"
    /\ geometry = L1Geometry
    /\ runs = <<>>
    /\ trans = [v \in {} |-> NULL]
    /\ keybuf \in UNION {[1..n -> KeyBytes] : n \in 0..MaxKeyLen}
    /\ type \in KeyTypes
    /\ parsed = FALSE
    /\ rsa = {}
    /\ errp = {}

\* one call of qcrypto_akcipher_rsakey_parse(type, key, keylen, errp)
KeyParse ==
    /\ ~parsed
    /\ \E r \in {qcrypto_akcipher_rsakey_parse(type, keybuf, Len(keybuf))} :
           /\ rsa' = r.rsa
           /\ errp' = r.errp
    /\ parsed' = TRUE
    /\ UNCHANGED <<keybuf, type>>
    /\ UNCHANGED <<cfgVars, plugVars, hostVars, obsVars, scanVars, winVars,
                   lockVars, exitVars, instVars, convVars, runs, regVars,
                   trackVars, evictVars>>

NextKey == KeyParse

SpecKey == InitKey /\ [][NextKey]_vars

\* the input is one SEQUENCE and nothing else, whose content is two elements
\* and nothing else; the second is an INTEGER, the first has the tag byte
\* firstTag
TwoElements(input, firstTag) ==
    /\ Len(input) >= 6
    /\ input[1] = 48
    /\ input[2] = Len(input) - 2
    /\ input[3] = firstTag
    /\ Len(input) >= 6 + input[4]
    /\ Len(input) = 6 + input[4] + input[4 + input[4] + 2]
    /\ input[4 + input[4] + 1] = 2

\* the input is the DER encoding of RsaPubKey ::= SEQUENCE { n INTEGER,
\* e INTEGER }
IsRsaPubKey(input) == TwoElements(input, 2)

\* C37: for a public key, qcrypto_akcipher_rsakey_parse returns a key only
\* when the input is one DER SEQUENCE with nothing after it that contains
\* exactly two elements, both INTEGERs; for every other input, and for an
\* unknown key type, it returns NULL with the error set.
C37_ParsesOnlyTwoIntegers ==
    parsed =>
        /\ rsa # {} => (type = "PUBLIC" /\ IsRsaPubKey(keybuf))
        /\ rsa = {} => errp # {}

\* the same with any primitive element allowed in the place of n
C37_FirstElementUnchecked ==
    parsed =>
        /\ rsa # {} <=> /\ type = "PUBLIC"
                        /\ \E t \in {b \in KeyBytes : (b \div 32) % 2 = 0} :
                               TwoElements(keybuf, t)
        /\ rsa = {} <=> errp # {}

====
